---- MODULE Spec2Model ----
(***************************************************************************)
(* The sequential tool-calling orchestration of backend/ai_generator.py:   *)
(* ToolCallTracker and AIGenerator.generate_response with its round loop,  *)
(* tool execution, synthesis call and fallback.                            *)
(*                                                                         *)
(* Python values: a str is a sequence of string tokens ("" is <<>>), a     *)
(* list is a sequence, a dict or an SDK object is a record, None is the    *)
(* sentinel None.  The two external collaborators, the LLM client          *)
(* (client.messages.create) and the tool manager (execute_tool), are the   *)
(* environment: the program stops at each call to them (pc) and the        *)
(* environment's answer is the input of the next action.                   *)
(***************************************************************************)
EXTENDS Integers, Sequences, FiniteSets, TLC

VARIABLES
    pc,                   \* where generate_response stands: idle, round_call,
                          \* tool_call, synth_call, direct_call, done
    tools,                \* argument tools
    tool_manager,         \* argument tool_manager
    exc_text,             \* str(e) of the exceptions this tool manager's tools raise
    tool_tracker,         \* the run's ToolCallTracker
    messages,             \* the run's conversation
    accumulated_context,  \* the run's context entries
    current_round,        \* local current_round of the round loop
    response,             \* the response of the current round
    block_idx,            \* index in response.content of the tool_use block being executed
    tool_results,         \* local tool_results of _execute_and_track_tools
    tool_executions,      \* local tool_executions of _execute_and_track_tools
    api_params,           \* parameters of the LLM call in flight
    outcome,              \* what generate_response returned or raised
    api_calls,            \* every client.messages.create call: its parameters and its answer
    tool_calls,           \* every tool_manager.execute_tool call: its arguments and its outcome
    tracker_call,         \* the latest call of a ToolCallTracker method by a caller of
                          \* the class: its arguments, the tracker before it, its result
    tool_output,          \* what the tools of a digest's executions returned
    digest,               \* the latest result of _summarize_tool_context
    runs,                 \* two generate_response calls on one AIGenerator: the
                          \* arguments and locals of each
    base_params,          \* self.base_params, which those calls share
    registry,             \* the Tool Registry: its tools in registration order
    queries,              \* two user-facing queries on that registry: where each
                          \* is, what its tools produced, what it read
    executed,             \* the latest Tool Registry execute: its arguments and outcome
    helper                \* a call of _handle_tool_execution: its arguments, its
                          \* locals, the LLM call it made, what it returned or raised

vars == <<pc, tools, tool_manager, exc_text, tool_tracker, messages,
          accumulated_context, current_round, response, block_idx, tool_results,
          tool_executions, api_params, outcome, api_calls, tool_calls,
          tracker_call, tool_output, digest, runs, base_params,
      registry, queries, executed, helper>>

(***************************************************************************)
(* Bounds of the model.                                                    *)
(***************************************************************************)
\* the largest max_tool_rounds a run is started with
MaxRounds == 2
\* the largest number of content blocks in one LLM response
MaxBlocks == 2

(***************************************************************************)
(* Python values.                                                          *)
(***************************************************************************)
None == <<"None">>

\* Python truthiness of None, a str or a list
Truthy(v) == v # None /\ v # <<>>

\* the user's query; a str iterates as its characters, none of which is a dict
Query == <<[type |-> "char", text |-> "q"]>>

\* the arguments generate_response is called with
ToolsArgs == {None, <<>>, <<"search_course_content">>}
ToolManagerArgs == {None, <<"ToolManager">>}
ExcTexts == {<<>>, <<"boom">>}
Durations == {1}

\* what the LLM can answer: a stop reason and a list of text and tool_use blocks
StopReasons == {"end_turn", "tool_use"}
BlockTypes == {"text", "tool_use"}
Shapes == UNION {[1..n -> BlockTypes] : n \in 0..MaxBlocks}
\* a call that offers no tools is not answered with a tool_use block or stop reason
TextShapes == {shape \in Shapes : \A i \in 1..Len(shape) : shape[i] = "text"}
FinalStopReasons == StopReasons \ {"tool_use"}

\* block i of the answer to LLM call k: a TextBlock or a ToolUseBlock
Block(k, i, type) ==
    IF type = "text"
    THEN [type |-> "text", text |-> <<"text", ToString(k), ToString(i)>>]
    ELSE [type |-> "tool_use",
          id |-> <<"toolu", ToString(k), ToString(i)>>,
          name |-> <<"search_course_content">>,
          input |-> <<"query", ToString(k), ToString(i)>>]

\* the answer to LLM call k with the given stop reason and blocks
Message(k, stop, shape) ==
    [stop_reason |-> stop,
     content |-> [i \in 1..Len(shape) |-> Block(k, i, shape[i])]]

NoResponse == [stop_reason |-> "none", content |-> <<>>]
NoCall == [method |-> "none"]

\* lines 109-110: self.base_params
BaseParams == [model |-> <<"model">>, temperature |-> 0, max_tokens |-> 800]
NoParams == [messages |-> <<>>]

\* no Tool Registry execute yet
NoExecute == [query |-> 0]

\* _handle_tool_execution is not called
NoHelper == [pc |-> "none"]

\* what a tool returns when it does not raise
ToolResult(block) == <<"result">> \o block.input

Running == [kind |-> "running", value |-> <<>>]
Returned(text) == [kind |-> "returned", value |-> text]
Raised(exc) == [kind |-> "raised", value |-> <<exc>>]

(***************************************************************************)
(* ToolCallTracker.                                                        *)
(***************************************************************************)
\* a bug: a new tracker counts a round already
ToolCallTracker_started(max_rounds) ==
    [max_rounds |-> max_rounds,
     current_round |-> 1,
     tool_calls_made |-> <<>>,
     execution_times |-> <<>>,
     errors |-> <<>>]

ToolCallTracker(max_rounds) ==
    [max_rounds |-> max_rounds,
     current_round |-> 0,
     tool_calls_made |-> <<>>,
     execution_times |-> <<>>,
     errors |-> <<>>]

\* a bug: the round budget is checked with <=
can_make_tool_call_le(t) == t.current_round <= t.max_rounds

\* a bug: the round budget is checked with !=
can_make_tool_call_ne(t) == t.current_round # t.max_rounds

can_make_tool_call(t) == t.current_round < t.max_rounds

\* a bug: a round counts twice
start_round_by_two(t) == [t EXCEPT !.current_round = @ + 2]

\* lines 25-26: the tracker after the call; the call returns its current_round
start_round(t) == [t EXCEPT !.current_round = @ + 1]

\* a bug: a call record is tagged with its place in the log
log_tool_call_numbered(t, tool_name, params, execution_time, success, error) ==
    LET call == [round |-> Len(t.tool_calls_made) + 1,
                 tool_name |-> tool_name,
                 params |-> params,
                 execution_time |-> execution_time,
                 success |-> success,
                 error |-> error]
        t1 == [t EXCEPT !.tool_calls_made = Append(@, call),
                        !.execution_times = Append(@, execution_time)]
    IN  IF Truthy(error) THEN [t1 EXCEPT !.errors = Append(@, error)] ELSE t1

\* a bug: the error argument is appended to the errors whatever it is
log_tool_call_error_always(t, tool_name, params, execution_time, success, error) ==
    LET call == [round |-> t.current_round,
                 tool_name |-> tool_name,
                 params |-> params,
                 execution_time |-> execution_time,
                 success |-> success,
                 error |-> error]
    IN  [t EXCEPT !.tool_calls_made = Append(@, call),
                  !.execution_times = Append(@, execution_time),
                  !.errors = Append(@, error)]

log_tool_call(t, tool_name, params, execution_time, success, error) ==
    LET call == [round |-> t.current_round,
                 tool_name |-> tool_name,
                 params |-> params,
                 execution_time |-> execution_time,
                 success |-> success,
                 error |-> error]
        t1 == [t EXCEPT !.tool_calls_made = Append(@, call),
                        !.execution_times = Append(@, execution_time)]
    IN  IF Truthy(error) THEN [t1 EXCEPT !.errors = Append(@, error)] ELSE t1

\* line 64: sum(self.execution_times)
RECURSIVE sum(_)
sum(xs) == IF Len(xs) = 0 THEN 0 ELSE xs[1] + sum(Tail(xs))

\* a bug: the failed calls are counted by the errors list
get_summary_by_errors(t) ==
    [total_rounds |-> t.current_round,
     total_tool_calls |-> Len(t.tool_calls_made),
     successful_calls |-> Len(SelectSeq(t.tool_calls_made, LAMBDA call : call.success)),
     failed_calls |-> Len(t.errors),
     total_execution_time |-> sum(t.execution_times),
     errors |-> t.errors]

get_summary(t) ==
    [total_rounds |-> t.current_round,
     total_tool_calls |-> Len(t.tool_calls_made),
     successful_calls |-> Len(SelectSeq(t.tool_calls_made, LAMBDA call : call.success)),
     failed_calls |-> Len(SelectSeq(t.tool_calls_made, LAMBDA call : ~call.success)),
     total_execution_time |-> sum(t.execution_times),
     errors |-> t.errors]

(***************************************************************************)
(* AIGenerator: the pure parts of generate_response and its helpers.       *)
(***************************************************************************)
\* a bug: the tool manager is not looked at
use_tools_ignoring_manager(tls, tm) == Truthy(tls)

\* generate_response, line 148: "if tools and tool_manager"
use_tools(tls, tm) == Truthy(tls) /\ Truthy(tm)

\* generate_response, lines 154-158: the parameters of the direct call
direct_params(msgs) == [messages |-> msgs]

\* a bug: a round's call forces the use of a tool
round_params_forced(msgs, tls) ==
    [messages |-> msgs, tools |-> tls, tool_choice |-> [type |-> "any"]]

\* a bug: a round's call is sent the latest message only
round_params_latest_only(msgs, tls) ==
    [messages |-> <<msgs[Len(msgs)]>>, tools |-> tls, tool_choice |-> [type |-> "auto"]]

\* _handle_sequential_tool_execution, lines 248-254: the parameters of a round's call
round_params(msgs, tls) ==
    [messages |-> msgs, tools |-> tls, tool_choice |-> [type |-> "auto"]]

\* a bug: the synthesis call is built like a round's call
synthesis_params_with_tools(msgs) ==
    [messages |-> msgs, tools |-> tools, tool_choice |-> [type |-> "auto"]]

\* _handle_sequential_tool_execution, lines 291-296: the parameters of the synthesis call
synthesis_params(msgs) == [messages |-> msgs]

\* a bug: the stop reason is not looked at
wants_tools_always(resp) == TRUE

\* a bug: tools are run whenever the response holds a tool_use block
wants_tools_by_content(resp) ==
    \/ resp.stop_reason = "tool_use"
    \/ \E i \in 1..Len(resp.content) : resp.content[i].type = "tool_use"

\* line 263: "if response.stop_reason == 'tool_use'"
wants_tools(resp) == resp.stop_reason = "tool_use"

\* "response.content[0].text" (lines 161, 280, 299): the text of the first block,
\* IndexError on an empty list, AttributeError on a block that has no text
first_text(resp) ==
    IF Len(resp.content) = 0 THEN Raised("IndexError")
    ELSE IF resp.content[1].type # "text" THEN Raised("AttributeError")
    ELSE Returned(resp.content[1].text)

\* a bug: tool results anywhere in the conversation trigger the synthesis call
ends_with_tool_results_anywhere(msgs) ==
    \E n \in 1..Len(msgs) :
        /\ msgs[n].role = "user"
        /\ \E i \in 1..Len(msgs[n].content) : msgs[n].content[i].type = "tool_result"

\* lines 283-286: the last message is a user message holding a tool_result
ends_with_tool_results(msgs) ==
    LET last == msgs[Len(msgs)]
    IN  /\ last.role = "user"
        /\ \E i \in 1..Len(last.content) :
              /\ last.content[i].type # "char"
              /\ last.content[i].type = "tool_result"

\* lines 307-312: the texts of the blocks that have one
text_parts(content) == SelectSeq(content, LAMBDA b : b.type = "text")

\* "\n".join(text_parts), line 315
RECURSIVE join(_)
join(parts) ==
    IF Len(parts) = 0 THEN <<>>
    ELSE IF Len(parts) = 1 THEN parts[1].text
    ELSE parts[1].text \o <<"\n">> \o join(Tail(parts))

Apology == <<"I apologize, but I couldn't generate a proper response.">>

\* a bug: only the last message is looked at
last_assistant_text_last_only(msgs, n) ==
    IF n = 0 THEN Apology
    ELSE IF /\ msgs[n].role = "assistant"
            /\ Len(msgs[n].content) > 0
            /\ text_parts(msgs[n].content) # <<>>
         THEN join(text_parts(msgs[n].content))
         ELSE Apology

\* lines 302-317: the joined text of the latest of msgs[1..n] that is an assistant
\* message with a text block, or the apology
RECURSIVE last_assistant_text(_, _)
last_assistant_text(msgs, n) ==
    IF n = 0 THEN Apology
    ELSE IF /\ msgs[n].role = "assistant"
            /\ Len(msgs[n].content) > 0
            /\ text_parts(msgs[n].content) # <<>>
         THEN join(text_parts(msgs[n].content))
         ELSE last_assistant_text(msgs, n - 1)

\* a bug: only the first tool_use block of a response is executed
next_tool_use_first_only(content, from) ==
    LET S == {i \in from..Len(content) : content[i].type = "tool_use"}
    IN  IF S = {} \/ from > 1 THEN 0 ELSE CHOOSE i \in S : \A j \in S : i <= j

\* line 338-339: the first tool_use block of content at or after position from, or 0
next_tool_use(content, from) ==
    LET S == {i \in from..Len(content) : content[i].type = "tool_use"}
    IN  IF S = {} THEN 0 ELSE CHOOSE i \in S : \A j \in S : i <= j

\* line 373: "except Exception as e"; what a tool raises is an Exception
catches(e) == TRUE

\* a bug: the tracker is given the bare str(e)
error_msg_bare(e) == e

\* line 375
error_msg(e) == <<"Tool execution failed: ">> \o e

\* a bug: the text a tool returned is logged as an error text
tool_succeeded_error_recorded(trk, block, tool_result, execution_time) ==
    [tracker |-> log_tool_call(trk, block.name, block.input, execution_time, TRUE,
                               tool_result),
     result |-> [type |-> "tool_result",
                 tool_use_id |-> block.id,
                 content |-> tool_result],
     execution |-> [tool_name |-> block.name,
                    input |-> block.input,
                    result |-> tool_result,
                    execution_time |-> execution_time,
                    success |-> TRUE]]

\* a bug: the result of a tool that returned is flagged as an error
tool_succeeded_flagged(trk, block, tool_result, execution_time) ==
    [tracker |-> log_tool_call(trk, block.name, block.input, execution_time, TRUE, None),
     result |-> [type |-> "tool_result",
                 tool_use_id |-> block.id,
                 content |-> tool_result,
                 is_error |-> TRUE],
     execution |-> [tool_name |-> block.name,
                    input |-> block.input,
                    result |-> tool_result,
                    execution_time |-> execution_time,
                    success |-> TRUE]]

\* a bug: a tool that returned is logged as failed
tool_succeeded_logged_failed(trk, block, tool_result, execution_time) ==
    [tracker |-> log_tool_call(trk, block.name, block.input, execution_time, FALSE, None),
     result |-> [type |-> "tool_result",
                 tool_use_id |-> block.id,
                 content |-> tool_result],
     execution |-> [tool_name |-> block.name,
                    input |-> block.input,
                    result |-> tool_result,
                    execution_time |-> execution_time,
                    success |-> TRUE]]

\* lines 351-371: the tool returned tool_result
tool_succeeded(trk, block, tool_result, execution_time) ==
    [tracker |-> log_tool_call(trk, block.name, block.input, execution_time, TRUE, None),
     result |-> [type |-> "tool_result",
                 tool_use_id |-> block.id,
                 content |-> tool_result],
     execution |-> [tool_name |-> block.name,
                    input |-> block.input,
                    result |-> tool_result,
                    execution_time |-> execution_time,
                    success |-> TRUE]]

\* a bug: the tool result of a failed tool is not flagged
tool_failed_unflagged(trk, block, e, execution_time) ==
    [tracker |-> log_tool_call(trk, block.name, block.input, execution_time, FALSE,
                               error_msg(e)),
     result |-> [type |-> "tool_result",
                 tool_use_id |-> block.id,
                 content |-> error_msg(e)],
     execution |-> [tool_name |-> block.name,
                    input |-> block.input,
                    result |-> error_msg(e),
                    execution_time |-> execution_time,
                    success |-> FALSE,
                    error |-> e]]

\* lines 373-404: the tool raised e
tool_failed(trk, block, e, execution_time) ==
    [tracker |-> log_tool_call(trk, block.name, block.input, execution_time, FALSE,
                               error_msg(e)),
     result |-> [type |-> "tool_result",
                 tool_use_id |-> block.id,
                 content |-> error_msg(e),
                 is_error |-> TRUE],
     execution |-> [tool_name |-> block.name,
                    input |-> block.input,
                    result |-> error_msg(e),
                    execution_time |-> execution_time,
                    success |-> FALSE,
                    error |-> e]]

\* lines 416 and 269: "tool_results if tool_results else None" is truthy
has_results(results) == Len(results) > 0

\* lines 407-414
context_entry(round, execs) ==
    [round |-> round,
     tool_executions |-> execs,
     total_tools |-> Len(execs),
     successful_tools |-> Len(SelectSeq(execs, LAMBDA x : x.success))]

(***************************************************************************)
(* AIGenerator._summarize_tool_context.  In a tool's output, in an error   *)
(* text and in the digest's own literals every element is one character,   *)
(* so that Len is len(); a tool name is the one element it is elsewhere.   *)
(***************************************************************************)
\* line 508: "if len(result) > 300"
TruncateAt == 300

\* line 509: "..."
Marker == <<".", ".", ".">>

\* lines 507-509: the result as the digest shows it
truncate(result) ==
    IF Len(result) > TruncateAt
    THEN SubSeq(result, 1, TruncateAt) \o Marker
    ELSE result

\* line 513: exec.get('error', 'Unknown error')
error_of(exec) ==
    IF "error" \in DOMAIN exec
    THEN exec.error
    ELSE <<"U", "n", "k", "n", "o", "w", "n", " ", "e", "r", "r", "o", "r">>

\* lines 505-513: what follows "{tool_name}: " in the line of one execution
rendered(exec) ==
    IF exec.success
    THEN truncate(exec.result)
    ELSE <<"F", "a", "i", "l", "e", "d", " ", "(">> \o error_of(exec) \o <<")">>

\* a bug: the line of an execution shows how long it took
execution_line_timed(exec) ==
    <<"\n", " ", " ", "-", " ">> \o exec.tool_name \o <<":", " ">> \o rendered(exec)
        \o <<" ", "(", ToString(exec.execution_time), "s", ")">>

\* lines 511 and 513: the line of one execution
execution_line(exec) ==
    <<"\n", " ", " ", "-", " ">> \o exec.tool_name \o <<":", " ">> \o rendered(exec)

\* lines 499-513: "Round {round_num}:" and the lines of the round's executions
RECURSIVE execution_lines(_)
execution_lines(execs) ==
    IF Len(execs) = 0 THEN <<>>
    ELSE execution_line(execs[1]) \o execution_lines(Tail(execs))

round_summary(entry) ==
    <<"R", "o", "u", "n", "d", " ">> \o <<ToString(entry.round), ":">>
        \o execution_lines(entry.tool_executions)

\* line 517: "\n\n".join(summaries)
RECURSIVE join_summaries(_)
join_summaries(summaries) ==
    IF Len(summaries) = 0 THEN <<>>
    ELSE IF Len(summaries) = 1 THEN summaries[1]
    ELSE summaries[1] \o <<"\n", "\n">> \o join_summaries(Tail(summaries))

\* lines 482-517
summarize_tool_context(ctx) ==
    join_summaries([i \in 1..Len(ctx) |-> round_summary(ctx[i])])

(***************************************************************************)
(* The system prompts.  A literal of the source is one element.            *)
(***************************************************************************)
\* lines 72-103
SYSTEM_PROMPT == <<"SYSTEM_PROMPT">>

\* a bug: the block of the previous conversation is added whatever the history
system_content_always(conversation_history) ==
    SYSTEM_PROMPT \o <<"\n\nPrevious conversation:\n">> \o conversation_history

\* lines 136-140: conversation_history is None or a text
system_content(conversation_history) ==
    IF Truthy(conversation_history)
    THEN SYSTEM_PROMPT \o <<"\n\nPrevious conversation:\n">> \o conversation_history
    ELSE SYSTEM_PROMPT

\* line 436
FirstRoundGuidance ==
    <<"\n\nTool Round 1: This is your first search opportunity. You can make up to 2 total searches. Consider if you need additional information after this search to fully answer the question.">>

\* line 438
FinalRoundGuidance ==
    <<"\n\nTool Round 2: This is your second and final search opportunity. Use this to gather any additional information needed for a comprehensive answer.">>

\* lines 434-438: the guidance is chosen by the round number alone
round_guidance(round) ==
    IF round = 1 THEN FirstRoundGuidance
    ELSE IF round = 2 THEN FinalRoundGuidance
    ELSE <<>>

\* line 445
PreviousResultsLabel == <<"\n\nPrevious search results:\n">>

\* a bug: the block of previous results is added without looking at the context
build_enriched_system_content_always(base_content, ctx, round) ==
    base_content \o round_guidance(round)
        \o PreviousResultsLabel \o summarize_tool_context(ctx)

\* _build_enriched_system_content, lines 418-447
build_enriched_system_content(base_content, ctx, round) ==
    LET enriched_content == base_content \o round_guidance(round)
    IN  IF Len(ctx) > 0
        THEN enriched_content \o PreviousResultsLabel \o summarize_tool_context(ctx)
        ELSE enriched_content

\* lines 462-469
SynthesisGuidance ==
    <<"\n\nFinal Response Phase:\n- Synthesize information from ALL previous searches\n- Provide a comprehensive answer that leverages all gathered context\n- Do not mention the search process itself\n- Focus on directly answering the user's question with all available information\n">>

\* line 477
AllResultsLabel == <<"\n\nAll search results to synthesize:\n">>

\* a bug: the synthesis prompt shows the results of the latest round only
build_synthesis_system_content_latest(base_content, ctx) ==
    LET enriched_content == base_content \o SynthesisGuidance
    IN  IF Len(ctx) > 0
        THEN enriched_content \o AllResultsLabel
                 \o summarize_tool_context(<<ctx[Len(ctx)]>>)
        ELSE enriched_content

\* _build_synthesis_system_content, lines 449-480
build_synthesis_system_content(base_content, ctx) ==
    LET enriched_content == base_content \o SynthesisGuidance
    IN  IF Len(ctx) > 0
        THEN enriched_content \o AllResultsLabel \o summarize_tool_context(ctx)
        ELSE enriched_content

(***************************************************************************)
(* The state machine.                                                      *)
(***************************************************************************)
Init ==
    /\ pc = "idle"
    /\ tools = None
    /\ tool_manager = None
    /\ exc_text = <<>>
    /\ tool_tracker = ToolCallTracker(0)
    /\ messages = <<>>
    /\ accumulated_context = <<>>
    /\ current_round = 0
    /\ response = NoResponse
    /\ block_idx = 0
    /\ tool_results = <<>>
    /\ tool_executions = <<>>
    /\ api_params = NoParams
    /\ outcome = Running
    /\ api_calls = <<>>
    /\ tool_calls = <<>>
    /\ tracker_call = NoCall
    /\ tool_output = <<>>
    /\ digest = None
    /\ runs = <<>>
    /\ base_params = BaseParams
    /\ registry = <<>>
    /\ queries = <<>>
    /\ executed = NoExecute
    /\ helper = NoHelper

\* generate_response returns or raises
Finish(result, msgs, trk, ctx) ==
    /\ pc' = "done"
    /\ outcome' = result
    /\ api_params' = NoParams
    /\ messages' = msgs
    /\ tool_tracker' = trk
    /\ accumulated_context' = ctx
    /\ UNCHANGED current_round

\* an LLM call is issued and generate_response waits for its answer
Call(kind, params, msgs, trk, ctx, round) ==
    /\ pc' = kind
    /\ outcome' = Running
    /\ api_params' = params
    /\ messages' = msgs
    /\ tool_tracker' = trk
    /\ accumulated_context' = ctx
    /\ current_round' = round

\* a bug: the synthesis call is made whatever the conversation ends with
after_loop_always_synthesis(msgs, trk, ctx) ==
    Call("synth_call", synthesis_params(msgs), msgs, trk, ctx, current_round)

\* _handle_sequential_tool_execution, lines 282-317: after the round loop, the
\* synthesis call if the conversation ends with tool results, else the fallback
after_loop(msgs, trk, ctx) ==
    IF ends_with_tool_results(msgs)
    THEN Call("synth_call", synthesis_params(msgs), msgs, trk, ctx, current_round)
    ELSE Finish(Returned(last_assistant_text(msgs, Len(msgs))), msgs, trk, ctx)

\* a bug: the loop tests its condition after the first round only
round_loop_do_while(msgs, trk, ctx, tls) ==
    IF can_make_tool_call(trk) \/ trk.current_round = 0
    THEN LET t == start_round(trk)
         IN  Call("round_call", round_params(msgs, tls), msgs, t, ctx, t.current_round)
    ELSE after_loop(msgs, trk, ctx)

\* _handle_sequential_tool_execution, lines 238-257: the head of the round loop, up
\* to the round's LLM call
round_loop(msgs, trk, ctx, tls) ==
    IF can_make_tool_call(trk)
    THEN LET t == start_round(trk)
         IN  Call("round_call", round_params(msgs, tls), msgs, t, ctx, t.current_round)
    ELSE after_loop(msgs, trk, ctx)

\* a bug: the context keeps the entry of the latest round only
finish_round_latest_only(msgs, trk, ctx, results, execs) ==
    LET entry == context_entry(current_round, execs)
    IN  IF has_results(results)
        THEN round_loop(Append(msgs, [role |-> "user", content |-> results]),
                        trk, <<entry>>, tools)
        ELSE after_loop(msgs, trk, ctx)

\* lines 406-416 and 269-277: the round's tools are executed; with results the
\* loop goes on, without any it is left
finish_round(msgs, trk, ctx, results, execs) ==
    LET entry == context_entry(current_round, execs)
    IN  IF has_results(results)
        THEN round_loop(Append(msgs, [role |-> "user", content |-> results]),
                        trk, Append(ctx, entry), tools)
        ELSE after_loop(msgs, trk, ctx)

\* generate_response is called (lines 134-158)
generate_response(tls, tm, max_tool_rounds, exc) ==
    /\ pc = "idle"
    /\ tools' = tls
    /\ tool_manager' = tm
    /\ exc_text' = exc
    /\ LET trk == ToolCallTracker(max_tool_rounds)
           msgs == <<[role |-> "user", content |-> Query]>>
       IN  IF use_tools(tls, tm)
           THEN round_loop(msgs, trk, <<>>, tls)
           ELSE Call("direct_call", direct_params(msgs), msgs, trk, <<>>, 0)
    /\ UNCHANGED <<response, block_idx, tool_results, tool_executions, api_calls,
                   tool_calls>>
    /\ UNCHANGED <<tracker_call, tool_output, digest, runs, base_params,
      registry, queries, executed, helper>>

\* a bug: a failed LLM call is issued again
LLMFails_retry ==
    /\ pc \in {"direct_call", "round_call", "synth_call"}
    /\ Len(api_calls) < MaxRounds + 2
    /\ api_calls' = Append(api_calls, [kind |-> pc, params |-> api_params,
                                       ok |-> FALSE, response |-> NoResponse])
    /\ UNCHANGED <<pc, tools, tool_manager, exc_text, tool_tracker, messages,
                   accumulated_context, current_round, response, block_idx,
                   tool_results, tool_executions, api_params, outcome, tool_calls>>
    /\ UNCHANGED <<tracker_call, tool_output, digest, runs, base_params,
      registry, queries, executed, helper>>

\* client.messages.create raises: nothing catches it (lines 160, 257, 298)
LLMFails ==
    /\ pc \in {"direct_call", "round_call", "synth_call"}
    /\ api_calls' = Append(api_calls, [kind |-> pc, params |-> api_params,
                                       ok |-> FALSE, response |-> NoResponse])
    /\ Finish(Raised("APIError"), messages, tool_tracker, accumulated_context)
    /\ UNCHANGED <<tools, tool_manager, exc_text, response, block_idx, tool_results,
                   tool_executions, tool_calls>>
    /\ UNCHANGED <<tracker_call, tool_output, digest, runs, base_params,
      registry, queries, executed, helper>>

\* the direct call or the synthesis call answers (lines 160-161, 298-299)
FinalResponse(stop, shape) ==
    /\ pc \in {"direct_call", "synth_call"}
    /\ LET resp == Message(Len(api_calls) + 1, stop, shape)
       IN  /\ api_calls' = Append(api_calls, [kind |-> pc, params |-> api_params,
                                              ok |-> TRUE, response |-> resp])
           /\ Finish(first_text(resp), messages, tool_tracker, accumulated_context)
    /\ UNCHANGED <<tools, tool_manager, exc_text, response, block_idx, tool_results,
                   tool_executions, tool_calls>>
    /\ UNCHANGED <<tracker_call, tool_output, digest, runs, base_params,
      registry, queries, executed, helper>>

\* a round's call answers (lines 257-280 and 335-339)
RoundResponse(stop, shape) ==
    /\ pc = "round_call"
    /\ LET resp == Message(Len(api_calls) + 1, stop, shape)
           msgs == Append(messages, [role |-> "assistant", content |-> resp.content])
           first == next_tool_use(resp.content, 1)
       IN  /\ api_calls' = Append(api_calls, [kind |-> pc, params |-> api_params,
                                              ok |-> TRUE, response |-> resp])
           /\ response' = resp
           /\ tool_results' = <<>>
           /\ tool_executions' = <<>>
           /\ block_idx' = IF wants_tools(resp) THEN first ELSE 0
           /\ IF wants_tools(resp)
              THEN IF first # 0
                   THEN /\ pc' = "tool_call"
                        /\ messages' = msgs
                        /\ UNCHANGED <<tool_tracker, accumulated_context, current_round,
                                       api_params, outcome>>
                   ELSE finish_round(msgs, tool_tracker, accumulated_context, <<>>, <<>>)
              ELSE Finish(first_text(resp), msgs, tool_tracker, accumulated_context)
    /\ UNCHANGED <<tools, tool_manager, exc_text, tool_calls>>
    /\ UNCHANGED <<tracker_call, tool_output, digest, runs, base_params,
      registry, queries, executed, helper>>

\* tool_manager.execute_tool returns or raises (lines 340-416)
ToolReturn(raises, execution_time) ==
    /\ pc = "tool_call"
    /\ LET block == response.content[block_idx]
           done == IF raises
                   THEN tool_failed(tool_tracker, block, exc_text, execution_time)
                   ELSE tool_succeeded(tool_tracker, block, ToolResult(block),
                                       execution_time)
           results == Append(tool_results, done.result)
           execs == Append(tool_executions, done.execution)
           next == next_tool_use(response.content, block_idx + 1)
       IN  /\ tool_calls' = Append(tool_calls, [round |-> current_round,
                                                block |-> block_idx,
                                                name |-> block.name,
                                                input |-> block.input,
                                                raised |-> raises,
                                                after_call |-> Len(api_calls)])
           /\ tool_results' = results
           /\ tool_executions' = execs
           /\ block_idx' = next
           /\ IF raises /\ ~catches(exc_text)
              THEN Finish(Raised("Exception"), messages, tool_tracker,
                          accumulated_context)
              ELSE IF next # 0
              THEN /\ tool_tracker' = done.tracker
                   /\ UNCHANGED <<pc, messages, accumulated_context, current_round,
                                  api_params, outcome>>
              ELSE finish_round(messages, done.tracker, accumulated_context, results, execs)
    /\ UNCHANGED <<tools, tool_manager, exc_text, response, api_calls>>
    /\ UNCHANGED <<tracker_call, tool_output, digest, runs, base_params,
      registry, queries, executed, helper>>

Next ==
    \/ \E tls \in ToolsArgs, tm \in ToolManagerArgs, n \in 0..MaxRounds, exc \in ExcTexts :
          generate_response(tls, tm, n, exc)
    \/ LLMFails
    \/ \E stop \in FinalStopReasons, shape \in TextShapes : FinalResponse(stop, shape)
    \/ \E stop \in StopReasons, shape \in Shapes : RoundResponse(stop, shape)
    \/ \E raises \in BOOLEAN, execution_time \in Durations :
          ToolReturn(raises, execution_time)

Spec == Init /\ [][Next]_vars

\* client.messages.create returns or raises
LLMAnswers ==
    \/ LLMFails
    \/ \E stop \in FinalStopReasons, shape \in TextShapes : FinalResponse(stop, shape)
    \/ \E stop \in StopReasons, shape \in Shapes : RoundResponse(stop, shape)

\* tool_manager.execute_tool returns or raises
ToolAnswers ==
    \E raises \in BOOLEAN, execution_time \in Durations :
        ToolReturn(raises, execution_time)

\* the runs in which every LLM call and every tool execution returns or raises:
\* generate_response is synchronous and goes on as soon as the call it waits
\* for is over
FairNext ==
    \/ \E tls \in {None, <<"search_course_content">>}, n \in 0..MaxRounds :
          generate_response(tls, <<"ToolManager">>, n, <<"boom">>)
    \/ LLMAnswers
    \/ ToolAnswers

FairSpec == Init /\ [][FairNext]_vars /\ WF_vars(LLMAnswers) /\ WF_vars(ToolAnswers)

(***************************************************************************)
(* ToolCallTracker on its own: any caller, any order of its methods.       *)
(***************************************************************************)
\* the longest call log
MaxLog == 2

\* the (success, error) arguments of log_tool_call: error defaults to None, and
\* an error text may be empty
LogArgs == {<<TRUE, None>>, <<FALSE, <<"Error message">>>>, <<FALSE, <<>>>>}

generator_vars ==
    <<pc, tools, tool_manager, exc_text, messages, accumulated_context, current_round,
      response, block_idx, tool_results, tool_executions, api_params, outcome,
      api_calls, tool_calls, tool_output, digest, runs, base_params,
      registry, queries, executed, helper>>

\* what the latest call leaves for the next one to compare with
Previous == [method |-> tracker_call.method, ret |-> tracker_call.ret]

\* tracker = ToolCallTracker(max_rounds), lines 12-17
TrackerInit ==
    /\ pc = "idle"
    /\ tools = None
    /\ tool_manager = None
    /\ exc_text = <<>>
    /\ messages = <<>>
    /\ accumulated_context = <<>>
    /\ current_round = 0
    /\ response = NoResponse
    /\ block_idx = 0
    /\ tool_results = <<>>
    /\ tool_executions = <<>>
    /\ api_params = NoParams
    /\ outcome = Running
    /\ api_calls = <<>>
    /\ tool_calls = <<>>
    /\ tool_output = <<>>
    /\ digest = None
    /\ runs = <<>>
    /\ base_params = BaseParams
    /\ registry = <<>>
    /\ queries = <<>>
    /\ executed = NoExecute
    /\ helper = NoHelper
    /\ \E max_rounds \in 0..MaxRounds :
          /\ tool_tracker = ToolCallTracker(max_rounds)
          /\ tracker_call = [method |-> "__init__",
                             args |-> <<max_rounds>>,
                             before |-> ToolCallTracker(max_rounds),
                             ret |-> None,
                             prev |-> [method |-> "none", ret |-> None]]

\* tracker.can_make_tool_call(), lines 19-21
TrackerCanMakeToolCall ==
    /\ tracker_call' = [method |-> "can_make_tool_call",
                        args |-> <<>>,
                        before |-> tool_tracker,
                        ret |-> can_make_tool_call(tool_tracker),
                        prev |-> Previous]
    /\ UNCHANGED tool_tracker
    /\ UNCHANGED generator_vars

\* tracker.start_round(), lines 23-26: nothing in the method looks at max_rounds
TrackerStartRound ==
    /\ tool_tracker.current_round <= MaxRounds
    /\ tool_tracker' = start_round(tool_tracker)
    /\ tracker_call' = [method |-> "start_round",
                        args |-> <<>>,
                        before |-> tool_tracker,
                        ret |-> tool_tracker'.current_round,
                        prev |-> Previous]
    /\ UNCHANGED generator_vars

\* tracker.log_tool_call(tool_name, params, execution_time, success, error),
\* lines 28-51
TrackerLogToolCall(success, error, execution_time) ==
    /\ Len(tool_tracker.tool_calls_made) < MaxLog
    /\ LET tool_name == "search_course_content"
           params == <<"test">>
       IN  /\ tool_tracker' = log_tool_call(tool_tracker, tool_name, params,
                                            execution_time, success, error)
           /\ tracker_call' = [method |-> "log_tool_call",
                               args |-> <<tool_name, params, execution_time,
                                          success, error>>,
                               before |-> tool_tracker,
                               ret |-> None,
                               prev |-> Previous]
    /\ UNCHANGED generator_vars

\* a bug: the summary empties the errors it hands out
TrackerGetSummary_clearing ==
    /\ tracker_call' = [method |-> "get_summary",
                        args |-> <<>>,
                        before |-> tool_tracker,
                        ret |-> get_summary(tool_tracker),
                        prev |-> Previous]
    /\ tool_tracker' = [tool_tracker EXCEPT !.errors = <<>>]
    /\ UNCHANGED generator_vars

\* tracker.get_summary(), lines 53-66
TrackerGetSummary ==
    /\ tracker_call' = [method |-> "get_summary",
                        args |-> <<>>,
                        before |-> tool_tracker,
                        ret |-> get_summary(tool_tracker),
                        prev |-> Previous]
    /\ UNCHANGED tool_tracker
    /\ UNCHANGED generator_vars

TrackerNext ==
    \/ TrackerCanMakeToolCall
    \/ TrackerStartRound
    \/ \E a \in LogArgs, execution_time \in Durations :
          TrackerLogToolCall(a[1], a[2], execution_time)
    \/ TrackerGetSummary

SpecTracker == TrackerInit /\ [][TrackerNext]_vars

(***************************************************************************)
(* The context digest: the rounds of _handle_sequential_tool_execution as  *)
(* far as the accumulated context and its digests go.  The LLM's answers   *)
(* are left out but for whether tools are asked for.                       *)
(***************************************************************************)
\* how far beyond the truncation length a text goes
MaxExtra == 5

\* the lengths of a tool's output and of an exception's text
Lengths == {0, TruncateAt, TruncateAt + 1, TruncateAt + MaxExtra}

\* a text of n characters
Text(n) == [i \in 1..n |-> ToString(i % 10)]

digest_frame ==
    <<tools, tool_manager, exc_text, messages, response, block_idx, tool_results,
      outcome, api_calls, tool_calls, tracker_call, tool_output, runs, base_params,
      registry, queries, executed, helper>>

\* generate_response has not been called; the tools of the run return
\* tool_output or raise Exception(exc_text)
DigestInit ==
    /\ pc = "idle"
    /\ tools = <<"search_course_content">>
    /\ tool_manager = <<"ToolManager">>
    /\ messages = <<>>
    /\ accumulated_context = <<>>
    /\ current_round = 0
    /\ response = NoResponse
    /\ block_idx = 0
    /\ tool_results = <<>>
    /\ tool_executions = <<>>
    /\ api_params = NoParams
    /\ outcome = Running
    /\ api_calls = <<>>
    /\ tool_calls = <<>>
    /\ tracker_call = NoCall
    /\ digest = None
    /\ runs = <<>>
    /\ base_params = BaseParams
    /\ registry = <<>>
    /\ queries = <<>>
    /\ executed = NoExecute
    /\ helper = NoHelper
    /\ \E max_tool_rounds \in 1..MaxRounds : tool_tracker = ToolCallTracker(max_tool_rounds)
    /\ \E n \in Lengths : tool_output = Text(n)
    /\ \E n \in Lengths : exc_text = Text(n)

\* a bug: the digest's truncated results are written back into the context
digest_round_loop_in_place(trk, ctx) ==
    LET cut(exec) == IF exec.success
                     THEN [exec EXCEPT !.result = truncate(@)]
                     ELSE exec
        cut_ctx == [i \in 1..Len(ctx) |->
                      [ctx[i] EXCEPT !.tool_executions =
                          [k \in 1..Len(@) |-> cut(@[k])]]]
    IN  /\ accumulated_context' = cut_ctx
        /\ tool_executions' = <<>>
        /\ IF can_make_tool_call(trk)
           THEN /\ tool_tracker' = start_round(trk)
                /\ current_round' = tool_tracker'.current_round
                /\ digest' = IF Len(ctx) > 0 THEN summarize_tool_context(ctx) ELSE digest
                /\ api_params' =
                      [system |-> build_enriched_system_content(
                                      system_content(None), ctx,
                                      tool_tracker'.current_round)]
                /\ pc' = "round_call"
           ELSE /\ tool_tracker' = trk
                /\ UNCHANGED current_round
                /\ digest' = IF Len(ctx) > 0 THEN summarize_tool_context(ctx) ELSE digest
                /\ api_params' =
                      [system |-> build_synthesis_system_content(
                                      system_content(None), ctx)]
                /\ pc' = "synth_call"

\* lines 238-246 and 283-289: the head of the round loop builds the enriched
\* prompt, and after the loop the synthesis prompt is built; each holds a digest
\* when the accumulated context is not empty (lines 443-445, 474-478)
digest_round_loop(trk, ctx) ==
    /\ accumulated_context' = ctx
    /\ tool_executions' = <<>>
    /\ IF can_make_tool_call(trk)
       THEN /\ tool_tracker' = start_round(trk)
            /\ current_round' = tool_tracker'.current_round
            /\ digest' = IF Len(ctx) > 0 THEN summarize_tool_context(ctx) ELSE digest
            /\ api_params' =
                  [system |-> build_enriched_system_content(
                                  system_content(None), ctx,
                                  tool_tracker'.current_round)]
            /\ pc' = "round_call"
       ELSE /\ tool_tracker' = trk
            /\ UNCHANGED current_round
            /\ digest' = IF Len(ctx) > 0 THEN summarize_tool_context(ctx) ELSE digest
            /\ api_params' =
                  [system |-> build_synthesis_system_content(
                                  system_content(None), ctx)]
            /\ pc' = "synth_call"

\* generate_response is called with tools and a tool manager (lines 142-151)
DigestBegin ==
    /\ pc = "idle"
    /\ digest_round_loop(tool_tracker, accumulated_context)
    /\ UNCHANGED digest_frame

\* the round's LLM call answers without asking for tools (lines 278-280)
DigestEndTurn ==
    /\ pc = "round_call"
    /\ pc' = "done"
    /\ UNCHANGED <<tool_tracker, accumulated_context, current_round, tool_executions,
                   digest, api_params>>
    /\ UNCHANGED digest_frame

\* a tool asked for by the round's answer returns or raises (lines 340-404);
\* after the last one the context entry is appended and the loop goes on
\* (lines 406-414, 273-274)
DigestToolReturn(raises, last, execution_time) ==
    /\ pc \in {"round_call", "tool_call"}
    /\ ~last => Len(tool_executions) + 1 < MaxBlocks
    /\ LET block == Block(current_round, Len(tool_executions) + 1, "tool_use")
           done == IF raises
                   THEN tool_failed(tool_tracker, block, exc_text, execution_time)
                   ELSE tool_succeeded(tool_tracker, block, tool_output, execution_time)
           execs == Append(tool_executions, done.execution)
       IN  IF last
           THEN digest_round_loop(done.tracker,
                                  Append(accumulated_context,
                                         context_entry(current_round, execs)))
           ELSE /\ pc' = "tool_call"
                /\ tool_tracker' = done.tracker
                /\ tool_executions' = execs
                /\ UNCHANGED <<accumulated_context, current_round, digest,
                               api_params>>
    /\ UNCHANGED digest_frame

DigestNext ==
    \/ DigestBegin
    \/ DigestEndTurn
    \/ \E raises \in BOOLEAN, last \in BOOLEAN, execution_time \in Durations :
          DigestToolReturn(raises, last, execution_time)

SpecDigest == DigestInit /\ [][DigestNext]_vars

(***************************************************************************)
(* Two generate_response calls on one AIGenerator.  Each has its own       *)
(* arguments and locals, a record of runs; self.base_params is the one     *)
(* object both read.  A call moves at the points where it waits: for an    *)
(* LLM answer or for a tool.                                               *)
(***************************************************************************)
Runs == {1, 2}

\* one tool-using round at most in each answer
RunShapes == {<<"text">>, <<"tool_use">>}

\* what the tools of these runs raise
RunExcText == <<"boom">>

\* argument conversation_history: absent, empty, or some earlier exchange
RunHistories == {None, <<>>, <<"history">>}

\* the locals of a generate_response that has not been called yet
NewRun ==
    [pc |-> "idle",
     tools |-> None,
     tool_manager |-> None,
     system_content |-> <<>>,
     tool_tracker |-> ToolCallTracker(0),
     messages |-> <<>>,
     accumulated_context |-> <<>>,
     current_round |-> 0,
     response |-> NoResponse,
     block_idx |-> 0,
     tool_results |-> <<>>,
     tool_executions |-> <<>>,
     api_params |-> NoParams,
     outcome |-> Running,
     api_calls |-> <<>>,
     events |-> <<>>]

\* lines 154-158, 248-254, 291-296: {**self.base_params, key: value, ...}
spread(base, extra) == extra @@ base

\* a bug: the parameters are written into self.base_params
shared_after_call_updated(base, params) == params

\* lines 154, 248, 291: the dict literal is a new dict; self.base_params is read
shared_after_call(base, params) == base

run_finish(run, result, msgs, trk, ctx) ==
    [run EXCEPT !.pc = "done",
                !.outcome = result,
                !.api_params = NoParams,
                !.messages = msgs,
                !.tool_tracker = trk,
                !.accumulated_context = ctx]

run_call(run, kind, params, msgs, trk, ctx, round) ==
    [run EXCEPT !.pc = kind,
                !.outcome = Running,
                !.api_params = params,
                !.messages = msgs,
                !.tool_tracker = trk,
                !.accumulated_context = ctx,
                !.current_round = round]

\* lines 282-317
run_after_loop(run, base, msgs, trk, ctx) ==
    IF ends_with_tool_results(msgs)
    THEN run_call(run, "synth_call",
                  spread(base, [messages |-> msgs,
                                system |-> build_synthesis_system_content(
                                               run.system_content, ctx)]),
                  msgs, trk, ctx, run.current_round)
    ELSE run_finish(run, Returned(last_assistant_text(msgs, Len(msgs))), msgs, trk, ctx)

\* lines 238-257
run_round_loop(run, base, msgs, trk, ctx) ==
    IF can_make_tool_call(trk)
    THEN LET t == start_round(trk)
         IN  run_call(run, "round_call",
                      spread(base, [messages |-> msgs,
                                    system |-> build_enriched_system_content(
                                                   run.system_content, ctx,
                                                   t.current_round),
                                    tools |-> run.tools,
                                    tool_choice |-> [type |-> "auto"]]),
                      msgs, t, ctx, t.current_round)
    ELSE run_after_loop(run, base, msgs, trk, ctx)

\* lines 406-416 and 269-277
run_finish_round(run, base, msgs, trk, ctx, results, execs) ==
    IF has_results(results)
    THEN run_round_loop(run, base,
                        Append(msgs, [role |-> "user", content |-> results]), trk,
                        Append(ctx, context_entry(run.current_round, execs)))
    ELSE run_after_loop(run, base, msgs, trk, ctx)

\* lines 134-161: generate_response(query, conversation_history, tls, tm,
\* max_tool_rounds)
run_begins(run, base, conversation_history, tls, tm, max_tool_rounds) ==
    LET r == [run EXCEPT !.tools = tls, !.tool_manager = tm,
                         !.system_content = system_content(conversation_history)]
        trk == ToolCallTracker(max_tool_rounds)
        msgs == <<[role |-> "user", content |-> Query]>>
    IN  IF use_tools(tls, tm)
        THEN run_round_loop(r, base, msgs, trk, <<>>)
        ELSE run_call(r, "direct_call",
                      spread(base, [messages |-> msgs,
                                    system |-> r.system_content]),
                      msgs, trk, <<>>, 0)

\* lines 160-161, 257-280, 298-299: client.messages.create raises or answers
run_answered(run, base, ok, stop, shape) ==
    LET resp == IF ok THEN Message(Len(run.api_calls) + 1, stop, shape) ELSE NoResponse
        r == [run EXCEPT !.api_calls = Append(@, [kind |-> run.pc,
                                                  params |-> run.api_params,
                                                  ok |-> ok,
                                                  response |-> resp])]
        msgs == Append(run.messages, [role |-> "assistant", content |-> resp.content])
        first == next_tool_use(resp.content, 1)
        r2 == [r EXCEPT !.response = resp,
                        !.tool_results = <<>>,
                        !.tool_executions = <<>>,
                        !.block_idx = IF wants_tools(resp) THEN first ELSE 0]
    IN  IF ~ok
        THEN run_finish(r, Raised("APIError"), run.messages, run.tool_tracker,
                        run.accumulated_context)
        ELSE IF run.pc # "round_call"
        THEN run_finish(r, first_text(resp), run.messages, run.tool_tracker,
                        run.accumulated_context)
        ELSE IF ~wants_tools(resp)
        THEN run_finish(r2, first_text(resp), msgs, run.tool_tracker,
                        run.accumulated_context)
        ELSE IF first # 0
        THEN [r2 EXCEPT !.pc = "tool_call", !.messages = msgs]
        ELSE run_finish_round(r2, base, msgs, run.tool_tracker,
                              run.accumulated_context, <<>>, <<>>)

\* lines 340-416: tool_manager.execute_tool returns or raises
run_tool_returned(run, base, raises, execution_time) ==
    LET block == run.response.content[run.block_idx]
        done == IF raises
                THEN tool_failed(run.tool_tracker, block, RunExcText, execution_time)
                ELSE tool_succeeded(run.tool_tracker, block, ToolResult(block),
                                    execution_time)
        results == Append(run.tool_results, done.result)
        execs == Append(run.tool_executions, done.execution)
        next == next_tool_use(run.response.content, run.block_idx + 1)
        r == [run EXCEPT !.tool_results = results,
                         !.tool_executions = execs,
                         !.block_idx = next]
    IN  IF next # 0
        THEN [r EXCEPT !.tool_tracker = done.tracker]
        ELSE run_finish_round(r, base, run.messages, done.tracker,
                              run.accumulated_context, results, execs)

\* one step of a run on an event; the run keeps the events it was given
run_step(run, base, ev) ==
    LET r == [run EXCEPT !.events = Append(@, ev)]
    IN  IF ev.type = "begin"
        THEN run_begins(r, base, ev.conversation_history, ev.tools, ev.tool_manager,
                        ev.max_tool_rounds)
        ELSE IF ev.type = "answer"
        THEN run_answered(r, base, ev.ok, ev.stop, ev.shape)
        ELSE run_tool_returned(r, base, ev.raises, ev.execution_time)

\* a run's step, and what it leaves in self.base_params
RunMoves(i, ev) ==
    /\ runs' = [runs EXCEPT ![i] = run_step(runs[i], base_params, ev)]
    /\ base_params' = IF runs'[i].pc \in {"direct_call", "round_call", "synth_call"}
                      THEN shared_after_call(base_params, runs'[i].api_params)
                      ELSE base_params
    /\ UNCHANGED <<pc, tools, tool_manager, exc_text, tool_tracker, messages,
                   accumulated_context, current_round, response, block_idx,
                   tool_results, tool_executions, api_params, outcome, api_calls,
                   tool_calls, tracker_call, tool_output, digest, registry, queries,
                   executed, helper>>

TwoRunsInit ==
    /\ pc = "idle"
    /\ tools = None
    /\ tool_manager = None
    /\ exc_text = <<>>
    /\ tool_tracker = ToolCallTracker(0)
    /\ messages = <<>>
    /\ accumulated_context = <<>>
    /\ current_round = 0
    /\ response = NoResponse
    /\ block_idx = 0
    /\ tool_results = <<>>
    /\ tool_executions = <<>>
    /\ api_params = NoParams
    /\ outcome = Running
    /\ api_calls = <<>>
    /\ tool_calls = <<>>
    /\ tracker_call = NoCall
    /\ tool_output = <<>>
    /\ digest = None
    /\ runs = [i \in Runs |-> NewRun]
    /\ base_params = BaseParams
    /\ registry = <<>>
    /\ queries = <<>>
    /\ executed = NoExecute
    /\ helper = NoHelper

\* run i: generate_response is called
RunBegins(i, conversation_history, tls, max_tool_rounds) ==
    /\ runs[i].pc = "idle"
    /\ RunMoves(i, [type |-> "begin", conversation_history |-> conversation_history,
                    tools |-> tls, tool_manager |-> <<"ToolManager">>,
                    max_tool_rounds |-> max_tool_rounds])

\* run i: its LLM call raises or answers
RunAnswered(i, ok, stop, shape) ==
    /\ runs[i].pc \in {"direct_call", "round_call", "synth_call"}
    /\ runs[i].pc # "round_call" => stop # "tool_use" /\ shape = <<"text">>
    /\ RunMoves(i, [type |-> "answer", ok |-> ok, stop |-> stop, shape |-> shape])

\* run i: its tool returns or raises
RunToolReturned(i, raises, execution_time) ==
    /\ runs[i].pc = "tool_call"
    /\ RunMoves(i, [type |-> "tool", raises |-> raises,
                    execution_time |-> execution_time])

TwoRunsNext ==
    \/ \E i \in Runs, conversation_history \in RunHistories,
          tls \in {None, <<"search_course_content">>}, max_tool_rounds \in 0..MaxRounds :
          RunBegins(i, conversation_history, tls, max_tool_rounds)
    \/ \E i \in Runs, ok \in BOOLEAN, stop \in StopReasons, shape \in RunShapes :
          RunAnswered(i, ok, stop, shape)
    \/ \E i \in Runs, raises \in BOOLEAN, execution_time \in Durations :
          RunToolReturned(i, raises, execution_time)

SpecTwoRuns == TwoRunsInit /\ [][TwoRunsNext]_vars

(***************************************************************************)
(* Two generate_response calls on one AIGenerator that are given the same  *)
(* inputs: run 2 is given, event by event, what run 1 was given, but its   *)
(* tools take their own time.  Run 2 begins before, while or after run 1   *)
(* makes its calls, and never gets ahead of it.                            *)
(***************************************************************************)
\* time.time() - start_time of a tool execution
ReplayDurations == {1, 2}

\* event k of run 1 as run 2 gets it
replayed(ev, execution_time) ==
    IF ev.type = "tool" THEN [ev EXCEPT !.execution_time = execution_time] ELSE ev

\* run 2 is given the next input that run 1 was given
Replays(execution_time) ==
    /\ Len(runs[2].events) < Len(runs[1].events)
    /\ LET ev == runs[1].events[Len(runs[2].events) + 1]
       IN  /\ ev.type # "tool" => execution_time = 1
           /\ RunMoves(2, replayed(ev, execution_time))

ReplayNext ==
    \/ \E conversation_history \in RunHistories,
          tls \in {None, <<"search_course_content">>}, max_tool_rounds \in 0..MaxRounds :
          RunBegins(1, conversation_history, tls, max_tool_rounds)
    \/ \E ok \in BOOLEAN, stop \in StopReasons, shape \in RunShapes :
          RunAnswered(1, ok, stop, shape)
    \/ \E raises \in BOOLEAN, execution_time \in ReplayDurations :
          RunToolReturned(1, raises, execution_time)
    \/ \E execution_time \in ReplayDurations : Replays(execution_time)

SpecReplay == TwoRunsInit /\ [][ReplayNext]_vars

(***************************************************************************)
(* The Tool Registry (ToolManager) and the user-facing queries that share  *)
(* it.  A query resets the sources, has its tools executed and reads the   *)
(* sources.                                                                *)
(***************************************************************************)
MaxExecs == 2

Queries == {1, 2}

\* the tools there are to register: two objects declare the same name
ToolObjects ==
    {[id |-> 1, name |-> "search_course_content", tracks |-> TRUE],
     [id |-> 2, name |-> "search_course_content", tracks |-> TRUE],
     [id |-> 3, name |-> "get_course_outline", tracks |-> FALSE]}

ToolNames == {"search_course_content", "get_course_outline", "nonexistent_tool"}

KwArgs == {[query |-> <<"a">>], [query |-> <<"b">>, course_name |-> <<"MCP">>]}

\* a tool as registered: the sources it tracks, the keyword arguments of its
\* latest call
NewTool(obj) ==
    [id |-> obj.id, name |-> obj.name, tracks |-> obj.tracks,
     last_sources |-> <<>>, calls |-> <<>>]

is_registered(reg, name) == \E i \in DOMAIN reg : reg[i].name = name

tool_index(reg, name) == CHOOSE i \in DOMAIN reg : reg[i].name = name

\* register(tool): keyed by the declared name, the last write wins
register_tool(reg, tool) ==
    IF is_registered(reg, tool.name)
    THEN [reg EXCEPT ![tool_index(reg, tool.name)] = tool]
    ELSE Append(reg, tool)

\* the string a tool returns
tool_output_of(tool, kwargs) == <<tool.name>> \o kwargs.query

\* the textual result for a name that is not registered
tool_not_found(name) == <<"Tool '", name, "' ", "not found">>

\* a tool is invoked: it keeps its latest sources when it tracks them
tool_execute(tool, kwargs, attribution, raises) ==
    [tool EXCEPT !.calls = <<kwargs>>,
                 !.last_sources = IF tool.tracks /\ ~raises
                                  THEN <<attribution>>
                                  ELSE @]

\* a bug: an unknown name raises
execute_tool_raising(reg, name, kwargs, attribution, raises) ==
    IF ~is_registered(reg, name)
    THEN [registry |-> reg, result |-> Raised("KeyError")]
    ELSE LET i == tool_index(reg, name)
         IN  [registry |-> [reg EXCEPT ![i] = tool_execute(reg[i], kwargs,
                                                            attribution, raises)],
              result |-> IF raises
                         THEN Raised("ToolError")
                         ELSE Returned(tool_output_of(reg[i], kwargs))]

\* execute(name, **kwargs): the registry answers for an absent name; what a
\* tool raises propagates
execute_tool(reg, name, kwargs, attribution, raises) ==
    IF ~is_registered(reg, name)
    THEN [registry |-> reg, result |-> Returned(tool_not_found(name))]
    ELSE LET i == tool_index(reg, name)
         IN  [registry |-> [reg EXCEPT ![i] = tool_execute(reg[i], kwargs,
                                                            attribution, raises)],
              result |-> IF raises
                         THEN Raised("ToolError")
                         ELSE Returned(tool_output_of(reg[i], kwargs))]

RECURSIVE get_last_sources(_)
\* last_sources(): the sources of the tools that track them, in registration
\* order
get_last_sources(reg) ==
    IF reg = <<>>
    THEN <<>>
    ELSE (IF Head(reg).tracks THEN Head(reg).last_sources ELSE <<>>)
             \o get_last_sources(Tail(reg))

\* a bug: the sources stay
reset_sources_kept(reg) == reg

\* reset_sources(): clears the sources of each tool that tracks them
reset_sources(reg) ==
    [i \in DOMAIN reg |-> IF reg[i].tracks
                          THEN [reg[i] EXCEPT !.last_sources = <<>>]
                          ELSE reg[i]]

\* a query that has not begun; disturbed records that another query had a
\* tool executed between this query's reset and its read
NewQuery ==
    [pc |-> "idle", execs |-> 0, produced |-> <<>>, read |-> <<>>,
     disturbed |-> FALSE]

registry_frame ==
    <<pc, tools, tool_manager, exc_text, tool_tracker, messages,
      accumulated_context, current_round, response, block_idx, tool_results,
      tool_executions, api_params, outcome, api_calls, tool_calls, tracker_call,
      tool_output, digest, runs, base_params, helper>>

RegistryInit ==
    /\ pc = "idle"
    /\ tools = None
    /\ tool_manager = None
    /\ exc_text = <<>>
    /\ tool_tracker = ToolCallTracker(0)
    /\ messages = <<>>
    /\ accumulated_context = <<>>
    /\ current_round = 0
    /\ response = NoResponse
    /\ block_idx = 0
    /\ tool_results = <<>>
    /\ tool_executions = <<>>
    /\ api_params = NoParams
    /\ outcome = Running
    /\ api_calls = <<>>
    /\ tool_calls = <<>>
    /\ tracker_call = NoCall
    /\ tool_output = <<>>
    /\ digest = None
    /\ runs = <<>>
    /\ base_params = BaseParams
    /\ registry = <<>>
    /\ queries = [q \in Queries |-> NewQuery]
    /\ executed = NoExecute
    /\ helper = NoHelper

\* the tools are registered before the queries come
RegisterTool(obj) ==
    /\ \A q \in Queries : queries[q].pc = "idle"
    /\ registry' = register_tool(registry, NewTool(obj))
    /\ UNCHANGED <<queries, executed>>
    /\ UNCHANGED registry_frame

\* query q begins: reset_sources()
QueryResets(q) ==
    /\ queries[q].pc = "idle"
    /\ registry' = reset_sources(registry)
    /\ queries' = [queries EXCEPT ![q].pc = "running"]
    /\ UNCHANGED executed
    /\ UNCHANGED registry_frame

\* the orchestration of query q has a tool executed
QueryExecutes(q, name, kwargs, raises) ==
    /\ queries[q].pc = "running"
    /\ queries[q].execs < MaxExecs
    /\ ~is_registered(registry, name) => ~raises
    /\ LET attribution == [query |-> q, execution |-> queries[q].execs + 1]
           done == execute_tool(registry, name, kwargs, attribution, raises)
           tracked == /\ is_registered(registry, name)
                      /\ registry[tool_index(registry, name)].tracks
                      /\ ~raises
       IN  /\ registry' = done.registry
           /\ executed' = [query |-> q, name |-> name, kwargs |-> kwargs,
                           result |-> done.result]
           /\ queries' = [p \in Queries |->
                             IF p = q
                             THEN [queries[p] EXCEPT
                                      !.execs = @ + 1,
                                      !.produced = IF tracked
                                                   THEN Append(@, attribution)
                                                   ELSE @]
                             ELSE IF queries[p].pc = "running"
                             THEN [queries[p] EXCEPT !.disturbed = TRUE]
                             ELSE queries[p]]
    /\ UNCHANGED registry_frame

\* the orchestration of query q is over: last_sources()
QueryReads(q) ==
    /\ queries[q].pc = "running"
    /\ queries' = [queries EXCEPT ![q].pc = "done",
                                  ![q].read = get_last_sources(registry)]
    /\ UNCHANGED <<registry, executed>>
    /\ UNCHANGED registry_frame

RegistryNext ==
    \/ \E obj \in ToolObjects : RegisterTool(obj)
    \/ \E q \in Queries : QueryResets(q)
    \/ \E q \in Queries, name \in ToolNames, kwargs \in KwArgs, raises \in BOOLEAN :
          QueryExecutes(q, name, kwargs, raises)
    \/ \E q \in Queries : QueryReads(q)

SpecRegistry == RegistryInit /\ [][RegistryNext]_vars

(***************************************************************************)
(* A run whose tool manager is a Tool Registry: the LLM asks for           *)
(* search_course_content, which the registry holds or does not hold.       *)
(***************************************************************************)
SearchTool == [id |-> 1, name |-> "search_course_content", tracks |-> TRUE]
OutlineTool == [id |-> 3, name |-> "get_course_outline", tracks |-> FALSE]

ManagedRegistries == {<<>>, <<NewTool(SearchTool)>>, <<NewTool(OutlineTool)>>}

ManagedInit ==
    /\ pc = "idle"
    /\ tools = None
    /\ tool_manager = None
    /\ exc_text = <<>>
    /\ tool_tracker = ToolCallTracker(0)
    /\ messages = <<>>
    /\ accumulated_context = <<>>
    /\ current_round = 0
    /\ response = NoResponse
    /\ block_idx = 0
    /\ tool_results = <<>>
    /\ tool_executions = <<>>
    /\ api_params = NoParams
    /\ outcome = Running
    /\ api_calls = <<>>
    /\ tool_calls = <<>>
    /\ tracker_call = NoCall
    /\ tool_output = <<>>
    /\ digest = None
    /\ runs = <<>>
    /\ base_params = BaseParams
    /\ registry \in ManagedRegistries
    /\ queries = <<>>
    /\ executed = NoExecute
    /\ helper = NoHelper

\* lines 340-416 with tool_manager.execute_tool the registry's execute: it
\* returns the tool's string or the 'not found' text, or the tool raises
ManagedToolReturn(raises, execution_time) ==
    /\ pc = "tool_call"
    /\ ~is_registered(registry, response.content[block_idx].name[1]) => ~raises
    /\ LET block == response.content[block_idx]
           kwargs == [query |-> block.input]
           attribution == [query |-> 1, execution |-> Len(tool_calls) + 1]
           answer == execute_tool(registry, block.name[1], kwargs, attribution, raises)
           done == IF answer.result.kind = "raised"
                   THEN tool_failed(tool_tracker, block, exc_text, execution_time)
                   ELSE tool_succeeded(tool_tracker, block, answer.result.value,
                                       execution_time)
           results == Append(tool_results, done.result)
           execs == Append(tool_executions, done.execution)
           next == next_tool_use(response.content, block_idx + 1)
       IN  /\ registry' = answer.registry
           /\ executed' = [query |-> 1, name |-> block.name[1], kwargs |-> kwargs,
                           result |-> answer.result]
           /\ tool_calls' = Append(tool_calls,
                                   [round |-> current_round,
                                    block |-> block_idx,
                                    name |-> block.name,
                                    input |-> block.input,
                                    raised |-> raises,
                                    after_call |-> Len(api_calls),
                                    registered |-> is_registered(registry,
                                                                 block.name[1])])
           /\ tool_results' = results
           /\ tool_executions' = execs
           /\ block_idx' = next
           /\ IF next # 0
              THEN /\ tool_tracker' = done.tracker
                   /\ UNCHANGED <<pc, messages, accumulated_context, current_round,
                                  api_params, outcome>>
              ELSE finish_round(messages, done.tracker, accumulated_context, results,
                                execs)
    /\ UNCHANGED <<tools, tool_manager, exc_text, response, api_calls>>
    /\ UNCHANGED <<tracker_call, tool_output, digest, runs, base_params, queries,
                   helper>>

ManagedNext ==
    \/ \E n \in 1..MaxRounds :
          generate_response(<<"search_course_content">>, <<"ToolManager">>, n, <<"boom">>)
    \/ LLMFails
    \/ \E stop \in FinalStopReasons, shape \in TextShapes : FinalResponse(stop, shape)
    \/ \E stop \in StopReasons, shape \in Shapes : RoundResponse(stop, shape)
    \/ \E raises \in BOOLEAN, execution_time \in Durations :
          ManagedToolReturn(raises, execution_time)

SpecManaged == ManagedInit /\ [][ManagedNext]_vars

(***************************************************************************)
(* What a run shows to its environment and its caller.                     *)
(***************************************************************************)
CallStates == {"direct_call", "round_call", "synth_call"}

\* the parameters of every LLM call issued so far, the one in flight included
IssuedParams ==
    [i \in 1..Len(api_calls) |-> api_calls[i].params]
        \o (IF pc \in CallStates THEN <<api_params>> ELSE <<>>)

OffersTools(params) == "tools" \in DOMAIN params \/ "tool_choice" \in DOMAIN params

ToolUsePositions(content) ==
    SelectSeq([i \in 1..Len(content) |-> i], LAMBDA i : content[i].type = "tool_use")

RECURSIVE SumLen(_)
SumLen(seqs) == IF Len(seqs) = 0 THEN 0 ELSE Len(seqs[1]) + SumLen(Tail(seqs))

\* the tool_use blocks of the tool_use responses received so far
ToolUseRequests ==
    SumLen([i \in 1..Len(api_calls) |->
              IF api_calls[i].ok /\ api_calls[i].response.stop_reason = "tool_use"
              THEN ToolUsePositions(api_calls[i].response.content)
              ELSE <<>>])

LastCall == api_calls[Len(api_calls)]

HasLeadingText(resp) == Len(resp.content) > 0 /\ resp.content[1].type = "text"

WithTools == pc # "idle" /\ use_tools(tools, tool_manager)

\* the run's execute_tool calls made for the response of LLM call i
CallsOfRound(i) == SelectSeq(tool_calls, LAMBDA c : c.after_call = i)

(***************************************************************************)
(* The claims.                                                             *)
(***************************************************************************)
\* C1: in a run with max_tool_rounds = N, at most N LLM calls carry tool
\* definitions or a tool_choice, and the execute_tool invocations never outnumber
\* the tool_use blocks of the tool_use responses received.
C1_RoundBudget ==
    /\ Len(SelectSeq(IssuedParams, OffersTools)) <= tool_tracker.max_rounds
    /\ Len(tool_calls) <= ToolUseRequests

\* a finished run of 2 rounds that used both and executed a tool for every request
C1_Witness ==
    /\ pc = "done"
    /\ tool_tracker.max_rounds = 2
    /\ Len(SelectSeq(IssuedParams, OffersTools)) = 2
    /\ Len(tool_calls) = ToolUseRequests
    /\ Len(tool_calls) >= 3

\* every round of the budget was run and answered with stop_reason tool_use
AllRoundsToolUse ==
    /\ WithTools
    /\ Len(api_calls) >= tool_tracker.max_rounds
    /\ \A i \in 1..tool_tracker.max_rounds :
          /\ api_calls[i].kind = "round_call"
          /\ api_calls[i].ok
          /\ api_calls[i].response.stop_reason = "tool_use"

\* ... and every one of these responses held a tool_use block
AllRoundsRequestTools ==
    /\ AllRoundsToolUse
    /\ \A i \in 1..tool_tracker.max_rounds :
          ToolUsePositions(api_calls[i].response.content) # <<>>

\* the run made the synthesis call as call n, without tools, and returned its text
SynthesisAsCall(n) ==
    /\ Len(api_calls) = n
    /\ LastCall.kind = "synth_call"
    /\ ~OffersTools(LastCall.params)
    /\ \A i \in 1..(n - 1) : api_calls[i].kind = "round_call"
    /\ LastCall.ok /\ HasLeadingText(LastCall.response)
          => outcome = Returned(LastCall.response.content[1].text)

DirectAnswer ==
    /\ Len(api_calls) > 0
    /\ LastCall.kind = "round_call"
    /\ LastCall.ok
    /\ LastCall.response.stop_reason # "tool_use"

\* C3: when round k's response has a stop reason other than tool_use the run ends
\* at once: k LLM calls (the k rounds) were made, no tool was executed for that
\* response, no synthesis call follows, and the text of the response (of its first
\* block, when that is a text block) is what generate_response returns.
C3_DirectAnswer ==
    DirectAnswer =>
        /\ pc = "done"
        /\ Len(api_calls) = tool_tracker.current_round
        /\ \A i \in 1..Len(api_calls) : api_calls[i].kind = "round_call"
        /\ CallsOfRound(Len(api_calls)) = <<>>
        /\ Len(tool_calls) = 0 \/ Len(api_calls) > 1
        /\ HasLeadingText(LastCall.response)
              => outcome = Returned(LastCall.response.content[1].text)

\* round 2 answers with text, after a first round that used tools
C3_Witness ==
    /\ DirectAnswer
    /\ Len(api_calls) = 2
    /\ Len(tool_calls) > 0
    /\ ToolUsePositions(LastCall.response.content) # <<>>
    /\ HasLeadingText(LastCall.response)
    /\ outcome = Returned(LastCall.response.content[1].text)

\* the call records of the tracker that failed
FailedRecords == SelectSeq(tool_tracker.tool_calls_made, LAMBDA c : ~c.success)

\* generate_response raised because an LLM call failed or because the response
\* whose text it returns has no leading text block
RaisedByLLM ==
    /\ Len(api_calls) > 0
    /\ \/ ~LastCall.ok /\ outcome = Raised("APIError")
       \/ LastCall.ok /\ ~HasLeadingText(LastCall.response)

\* C4: a tool execution that raises does not raise out of generate_response (the
\* run raises only for an LLM call that failed or answered without text, and
\* returns a string otherwise); the tracker records the call with success = false
\* and its message is in errors, so errors has one entry per failed call record.
C4_ToolFailureContained ==
    /\ outcome.kind = "raised" => RaisedByLLM
    /\ pc = "done" /\ ~RaisedByLLM => outcome.kind = "returned"
    /\ Len(tool_tracker.tool_calls_made) = Len(tool_calls)
    /\ \A i \in 1..Len(tool_calls) :
          /\ tool_tracker.tool_calls_made[i].success = ~tool_calls[i].raised
          /\ tool_calls[i].raised =>
                /\ tool_tracker.tool_calls_made[i].error
                      = <<"Tool execution failed: ">> \o exc_text
                /\ \E j \in 1..Len(tool_tracker.errors) :
                      tool_tracker.errors[j] = <<"Tool execution failed: ">> \o exc_text
    /\ Len(tool_tracker.errors) = Len(FailedRecords)

\* a finished run that returned a string although a tool raised with an empty message
C4_Witness ==
    /\ pc = "done"
    /\ outcome.kind = "returned"
    /\ exc_text = <<>>
    /\ \E i \in 1..Len(tool_calls) : tool_calls[i].raised
    /\ Len(tool_tracker.errors) >= 1

\* C5 as stated: with tools and a tool manager but max_tool_rounds = 0 the run makes
\* one LLM call without tools and returns its text.
C5_ZeroRoundsDirect ==
    (pc = "done" /\ WithTools /\ tool_tracker.max_rounds = 0)
        => /\ Len(api_calls) = 1
           /\ ~OffersTools(LastCall.params)
           /\ LastCall.ok /\ HasLeadingText(LastCall.response)
                 => outcome = Returned(LastCall.response.content[1].text)

\* C6: without tools or without a tool manager the run makes exactly one LLM call,
\* with neither tools nor tool_choice, starts no round, executes no tool and returns
\* that call's text, whatever max_tool_rounds is.
C6_NoToolsDirect ==
    (pc # "idle" /\ ~(Truthy(tools) /\ Truthy(tool_manager)))
        => /\ pc \in {"direct_call", "done"}
           /\ Len(IssuedParams) = 1
           /\ ~OffersTools(IssuedParams[1])
           /\ tool_tracker.current_round = 0
           /\ Len(tool_calls) = 0
           /\ pc = "done" =>
                 /\ LastCall.kind = "direct_call"
                 /\ LastCall.ok /\ HasLeadingText(LastCall.response)
                       => outcome = Returned(LastCall.response.content[1].text)

\* tools are given, the tool manager is not, the budget is 2: the direct call answered
C6_Witness ==
    /\ pc = "done"
    /\ Truthy(tools)
    /\ ~Truthy(tool_manager)
    /\ tool_tracker.max_rounds = 2
    /\ Len(api_calls) = 1
    /\ outcome.kind = "returned"

\* the answer to the latest LLM call, a round's call, has stop_reason tool_use and
\* no tool_use block
ZeroResultRound ==
    /\ Len(api_calls) > 0
    /\ LastCall.kind = "round_call"
    /\ LastCall.ok
    /\ LastCall.response.stop_reason = "tool_use"
    /\ ToolUsePositions(LastCall.response.content) = <<>>

TextMessages ==
    {n \in 1..Len(messages) :
        /\ messages[n].role = "assistant"
        /\ \E i \in 1..Len(messages[n].content) : messages[n].content[i].type = "text"}

C8_AlwaysText ==
    (pc = "done" /\ \A i \in 1..Len(api_calls) : api_calls[i].ok)
        => outcome.kind = "returned"

\* C9: a failed LLM call is not caught and not retried: generate_response raises
\* it, and the failed call is the last LLM call and comes after every tool
\* execution of the run.
C9_LLMFailurePropagates ==
    \A i \in 1..Len(api_calls) :
        ~api_calls[i].ok =>
            /\ i = Len(api_calls)
            /\ pc = "done"
            /\ outcome = Raised("APIError")
            /\ \A j \in 1..Len(tool_calls) : tool_calls[j].after_call < i

\* the synthesis call fails after two rounds of tool executions
C9_Witness ==
    /\ Len(api_calls) = 3
    /\ ~LastCall.ok
    /\ LastCall.kind = "synth_call"
    /\ Len(tool_calls) >= 2
    /\ outcome.kind = "raised"

\* the tool executions of LLM call i are done
RoundExecuted(i) == i < Len(api_calls) \/ pc # "tool_call"

\* C10: the tool_use blocks of a tool_use response are all executed, in content
\* order and whether or not an earlier one raised, before the next LLM call is
\* issued (or the run ends), and their results are attached, one per block and in
\* that order, in the single user message that follows the response.
C10_AllToolsOfARound ==
    \A i \in 1..Len(api_calls) :
        (api_calls[i].kind = "round_call" /\ api_calls[i].ok
            /\ api_calls[i].response.stop_reason = "tool_use") =>
        LET content == api_calls[i].response.content
            blocks == ToolUsePositions(content)
            calls == CallsOfRound(i)
        IN  /\ Len(calls) <= Len(blocks)
            /\ \A j \in 1..Len(calls) :
                  /\ calls[j].block = blocks[j]
                  /\ calls[j].input = content[blocks[j]].input
                  /\ calls[j].name = content[blocks[j]].name
            /\ RoundExecuted(i) => Len(calls) = Len(blocks)
            /\ RoundExecuted(i) /\ Len(blocks) > 0 =>
                  /\ Len(messages) >= 2 * i + 1
                  /\ messages[2 * i].role = "assistant"
                  /\ messages[2 * i].content = content
                  /\ messages[2 * i + 1].role = "user"
                  /\ Len(messages[2 * i + 1].content) = Len(blocks)
                  /\ \A j \in 1..Len(blocks) :
                        /\ messages[2 * i + 1].content[j].type = "tool_result"
                        /\ messages[2 * i + 1].content[j].tool_use_id
                              = content[blocks[j]].id
                  /\ Len(messages) > 2 * i + 1 => messages[2 * i + 2].role = "assistant"

\* a response with two tool_use blocks: the first raised, the second was still
\* executed, and the next LLM call is issued
C10_Witness ==
    /\ Len(api_calls) = 1
    /\ pc = "round_call"
    /\ Len(tool_calls) = 2
    /\ tool_calls[1].raised
    /\ ~tool_calls[2].raised
    /\ Len(messages[3].content) = 2

(***************************************************************************)
(* C11: when the only tool call of round r raises, a tool-result message   *)
(* whose single entry is flagged is_error and carries the error message is *)
(* appended to the conversation, and the run goes on to the LLM call of    *)
(* round r+1 if r < max_tool_rounds, otherwise to the synthesis call.      *)
(***************************************************************************)
\* round r asked for one tool, the tool raised, and the round is over
OnlyCallRaised(r) ==
    /\ r <= Len(api_calls)
    /\ api_calls[r].kind = "round_call"
    /\ api_calls[r].ok
    /\ Len(ToolUsePositions(api_calls[r].response.content)) = 1
    /\ Len(CallsOfRound(r)) = 1
    /\ CallsOfRound(r)[1].raised
    /\ RoundExecuted(r)

\* the LLM call that follows round r, made or being made, is of this kind
CallAfterRound(r, kind) ==
    IF Len(api_calls) = r
    THEN pc = kind /\ outcome = Running
    ELSE api_calls[r + 1].kind = kind

FlaggedErrorResult(res) ==
    /\ res.type = "tool_result"
    /\ "is_error" \in DOMAIN res
    /\ res.is_error
    /\ res.content = <<"Tool execution failed: ">> \o exc_text

\* C11: a round whose only tool call raised leaves a flagged tool-result message
\* and is followed by the next round's call or, at the budget, by the synthesis call
C11_RaisedToolGoesOn ==
    \A r \in 1..(MaxRounds + 1) :
        OnlyCallRaised(r) =>
            /\ Len(messages) >= 2 * r + 1
            /\ messages[2 * r + 1].role = "user"
            /\ Len(messages[2 * r + 1].content) = 1
            /\ FlaggedErrorResult(messages[2 * r + 1].content[1])
            /\ CallAfterRound(r, IF r < tool_tracker.max_rounds
                                 THEN "round_call" ELSE "synth_call")

\* both rounds of a budget of two raised in their only tool, and the synthesis
\* call has answered
C11_Witness ==
    /\ tool_tracker.max_rounds = 2
    /\ OnlyCallRaised(1)
    /\ OnlyCallRaised(2)
    /\ Len(api_calls) = 3
    /\ api_calls[3].kind = "synth_call"
    /\ pc = "done"
    /\ outcome.kind = "returned"

(***************************************************************************)
(* C18: with max_tool_rounds = N, when each of the N rounds requests       *)
(* exactly one tool call and every tool call succeeds, round N+1 is never  *)
(* started, the synthesis call is made exactly once and its text is        *)
(* returned, and the tracker ends with total_rounds = N, total_tool_calls  *)
(* = N, successful_calls = N and failed_calls = 0.  A budget of N = 0 has  *)
(* no round and is the case of C5.                                         *)
(***************************************************************************)
\* round r asked for one tool and the tool returned
OneCallSucceeded(r) ==
    /\ r <= Len(api_calls)
    /\ api_calls[r].kind = "round_call"
    /\ api_calls[r].ok
    /\ api_calls[r].response.stop_reason = "tool_use"
    /\ Len(ToolUsePositions(api_calls[r].response.content)) = 1
    /\ Len(CallsOfRound(r)) = 1
    /\ ~CallsOfRound(r)[1].raised

\* all the rounds of the budget are over, each with one successful tool call
FullBudgetOfSingleCalls ==
    /\ WithTools
    /\ tool_tracker.max_rounds >= 1
    /\ \A r \in 1..tool_tracker.max_rounds : OneCallSucceeded(r)

\* the kinds of the LLM calls issued so far, the one in flight included
IssuedKinds ==
    [i \in 1..Len(api_calls) |-> api_calls[i].kind]
        \o (IF pc \in CallStates THEN <<pc>> ELSE <<>>)

\* C18: after N rounds of one successful tool call each, no further round is
\* started, one synthesis call is made, its text is returned, and the tracker
\* reports N rounds, N tool calls, N successes and no failure
C18_FullBudgetScenario ==
    LET N == tool_tracker.max_rounds
    IN  FullBudgetOfSingleCalls =>
            /\ tool_tracker.current_round = N
            /\ Len(SelectSeq(IssuedKinds, LAMBDA k : k = "round_call")) = N
            /\ Len(SelectSeq(IssuedKinds, LAMBDA k : k = "synth_call")) = 1
            /\ Len(IssuedKinds) = N + 1
            /\ IssuedKinds[N + 1] = "synth_call"
            /\ ~OffersTools(IssuedParams[N + 1])
            /\ (pc = "done" /\ LastCall.ok /\ HasLeadingText(LastCall.response))
                   => outcome = Returned(LastCall.response.content[1].text)
            /\ get_summary(tool_tracker).total_rounds = N
            /\ get_summary(tool_tracker).total_tool_calls = N
            /\ get_summary(tool_tracker).successful_calls = N
            /\ get_summary(tool_tracker).failed_calls = 0

\* the scenario of the specification: a budget of two, two rounds of one
\* successful tool call, and the synthesis call's text returned
C18_Witness ==
    /\ FullBudgetOfSingleCalls
    /\ tool_tracker.max_rounds = 2
    /\ pc = "done"
    /\ LastCall.kind = "synth_call"
    /\ LastCall.ok
    /\ HasLeadingText(LastCall.response)
    /\ outcome = Returned(LastCall.response.content[1].text)
    /\ get_summary(tool_tracker).successful_calls = 2

(***************************************************************************)
(* The claims about ToolCallTracker, checked under SpecTracker.            *)
(***************************************************************************)
Called(method) == tracker_call.method = method

\* C12 as stated: current_round <= max_rounds holds after any start_round call,
\* and no start_round raises current_round above max_rounds
C12_Original ==
    Called("start_round") => tool_tracker.current_round <= tool_tracker.max_rounds

\* C12: after a start_round called while can_make_tool_call() is true,
\* current_round <= max_rounds holds; and once current_round = max_rounds,
\* can_make_tool_call() is false, so that such a caller starts no further round
C12_GuardedStartRound ==
    /\ (/\ Called("start_round")
        /\ tracker_call.before.current_round < tracker_call.before.max_rounds)
           => tool_tracker.current_round <= tool_tracker.max_rounds
    /\ (/\ Called("can_make_tool_call")
        /\ tracker_call.before.current_round = tracker_call.before.max_rounds)
           => tracker_call.ret = FALSE

\* the last round of a budget of two has been started
C12_Witness ==
    /\ Called("start_round")
    /\ tracker_call.before.current_round < tracker_call.before.max_rounds
    /\ tool_tracker.max_rounds = 2
    /\ tool_tracker.current_round = 2

\* C13: can_make_tool_call() returns true if and only if current_round <
\* max_rounds, in every tracker state, and changes no tracker state
C13_CanMakeToolCall ==
    Called("can_make_tool_call") =>
        /\ tracker_call.ret =
              (tracker_call.before.current_round < tracker_call.before.max_rounds)
        /\ tool_tracker = tracker_call.before

\* asked of a tracker that is beyond its budget and has a call logged
C13_Witness ==
    /\ Called("can_make_tool_call")
    /\ tool_tracker.current_round > tool_tracker.max_rounds
    /\ Len(tool_tracker.tool_calls_made) > 0
    /\ tracker_call.ret = FALSE

\* C14: a tracker starts with current_round = 0 and empty logs; start_round
\* increases current_round by exactly 1 and returns the new value; no operation
\* decreases current_round or changes max_rounds
C14_RoundCounter ==
    /\ Called("__init__") =>
          /\ tool_tracker.current_round = 0
          /\ tool_tracker.max_rounds = tracker_call.args[1]
          /\ Len(tool_tracker.tool_calls_made) = 0
          /\ Len(tool_tracker.execution_times) = 0
          /\ Len(tool_tracker.errors) = 0
    /\ Called("start_round") =>
          /\ tool_tracker.current_round = tracker_call.before.current_round + 1
          /\ tracker_call.ret = tool_tracker.current_round
    /\ tool_tracker.current_round >= tracker_call.before.current_round
    /\ tool_tracker.max_rounds = tracker_call.before.max_rounds

\* the second round has been started after a call was logged
C14_Witness ==
    /\ Called("start_round")
    /\ tracker_call.before.current_round = 1
    /\ tracker_call.ret = 2
    /\ Len(tool_tracker.tool_calls_made) > 0

\* an error text is present: the argument is given and is not the empty text
ErrorPresent(error) == error # None /\ Len(error) > 0

\* C15: log_tool_call appends one record tagged with the current round, leaves
\* the earlier records as they were, appends the duration to the timing list,
\* which is always as long as the call list, and appends the error text to the
\* errors if and only if one is present
C15_LogToolCall ==
    /\ Len(tool_tracker.execution_times) = Len(tool_tracker.tool_calls_made)
    /\ Called("log_tool_call") =>
          LET t0 == tracker_call.before
              n == Len(t0.tool_calls_made)
              a == tracker_call.args
          IN  /\ Len(tool_tracker.tool_calls_made) = n + 1
              /\ SubSeq(tool_tracker.tool_calls_made, 1, n) = t0.tool_calls_made
              /\ tool_tracker.tool_calls_made[n + 1] =
                    [round |-> t0.current_round, tool_name |-> a[1], params |-> a[2],
                     execution_time |-> a[3], success |-> a[4], error |-> a[5]]
              /\ tool_tracker.execution_times = Append(t0.execution_times, a[3])
              /\ tool_tracker.errors = IF ErrorPresent(a[5])
                                       THEN Append(t0.errors, a[5])
                                       ELSE t0.errors
              /\ tool_tracker.current_round = t0.current_round

\* a failure with an error text is logged in round 1 after a call of round 0
C15_Witness ==
    /\ Called("log_tool_call")
    /\ ErrorPresent(tracker_call.args[5])
    /\ Len(tool_tracker.tool_calls_made) = 2
    /\ tool_tracker.tool_calls_made[1].round = 0
    /\ tool_tracker.tool_calls_made[2].round = 1
    /\ Len(tool_tracker.errors) = 1

\* C16: get_summary leaves current_round, the call log, the timing list and the
\* errors list as they were, and two calls in a row return equal summaries
C16_SummaryIsPure ==
    Called("get_summary") =>
        /\ tool_tracker.current_round = tracker_call.before.current_round
        /\ tool_tracker.tool_calls_made = tracker_call.before.tool_calls_made
        /\ tool_tracker.execution_times = tracker_call.before.execution_times
        /\ tool_tracker.errors = tracker_call.before.errors
        /\ tracker_call.prev.method = "get_summary"
              => tracker_call.ret = tracker_call.prev.ret

\* the summary of a tracker with a round, two calls and an error is asked twice
C16_Witness ==
    /\ Called("get_summary")
    /\ tracker_call.prev.method = "get_summary"
    /\ tool_tracker.current_round > 0
    /\ Len(tool_tracker.tool_calls_made) = 2
    /\ Len(tool_tracker.errors) > 0

\* C17: get_summary reports total_rounds = current_round, total_tool_calls =
\* the number of logged calls, successful_calls = the number of records logged
\* with success true, and successful_calls + failed_calls = total_tool_calls
C17_SummaryCounts ==
    Called("get_summary") =>
        LET calls == tracker_call.before.tool_calls_made
            r == tracker_call.ret
        IN  /\ r.total_rounds = tracker_call.before.current_round
            /\ r.total_tool_calls = Len(calls)
            /\ r.successful_calls =
                  Cardinality({i \in 1..Len(calls) : calls[i].success})
            /\ r.successful_calls + r.failed_calls = r.total_tool_calls

\* the summary of one success and one failure that came with no error text
C17_Witness ==
    /\ Called("get_summary")
    /\ tracker_call.ret.total_rounds = 1
    /\ tracker_call.ret.successful_calls = 1
    /\ tracker_call.ret.failed_calls = 1
    /\ Len(tool_tracker.errors) = 0

(***************************************************************************)
(* The claims about the context digest, checked under SpecDigest.          *)
(***************************************************************************)
\* the executions of the accumulated context, round after round
StoredExecutions ==
    {<<i, k>> \in (1..Len(accumulated_context)) \X (1..(MaxBlocks + 1)) :
        k <= Len(accumulated_context[i].tool_executions)}

Stored(p) == accumulated_context[p[1]].tool_executions[p[2]]

\* the part of an execution's line that comes from the tool: its result as
\* the digest shows it, or the text of the error inside "Failed (...)"
Shown(exec) == IF exec.success THEN truncate(exec.result) ELSE error_of(exec)

\* C19: in a digest, the text shown for a tool execution is never longer than
\* 300 characters plus the 3 of the marker "...", whatever the outcome of the
\* execution and the length of the tool's output or error message
C19_DigestBounded ==
    digest # None =>
        \A p \in StoredExecutions : Len(Shown(Stored(p))) <= 300 + 3

\* the accumulated context holds what the tools returned and raised
StoredInFull ==
    \A p \in StoredExecutions :
        IF Stored(p).success
        THEN Stored(p).result = tool_output
        ELSE /\ Stored(p).error = exc_text
             /\ Stored(p).result = <<"Tool execution failed: ">> \o exc_text

\* the accumulated context with the tools' own outputs for the stored results
FullContext ==
    [i \in 1..Len(accumulated_context) |->
        [accumulated_context[i] EXCEPT !.tool_executions =
            [k \in 1..Len(@) |->
                IF @[k].success THEN [@[k] EXCEPT !.result = tool_output] ELSE @[k]]]]

\* C20: the accumulated context keeps every tool result untruncated and
\* unmodified, every digest, of a later round or of the synthesis, is the
\* digest of those full results, and truncating a truncated result changes
\* nothing
C20_NoRetruncation ==
    /\ StoredInFull
    /\ Len(accumulated_context) = 0 => digest = None
    /\ Len(accumulated_context) > 0 => digest = summarize_tool_context(FullContext)
    /\ truncate(truncate(tool_output)) = truncate(tool_output)
    /\ \A p \in StoredExecutions :
          truncate(truncate(Stored(p).result)) = truncate(Stored(p).result)

\* the synthesis digest after two rounds whose first tool returned more than
\* the digest shows: round 2 had a digest of round 1 already
C20_Witness ==
    /\ pc = "synth_call"
    /\ Len(accumulated_context) = 2
    /\ Len(tool_output) > TruncateAt
    /\ accumulated_context[1].tool_executions[1].success
    /\ Len(accumulated_context[1].tool_executions[1].result) > TruncateAt
    /\ Len(digest) > 2 * TruncateAt

(***************************************************************************)
(* Further claims about a run of generate_response, checked under Spec.    *)
(***************************************************************************)
\* the position of the synthesis call among the LLM calls issued, or 0
SynthesisIndex ==
    LET S == {i \in 1..Len(IssuedKinds) : IssuedKinds[i] = "synth_call"}
    IN  IF S = {} THEN 0 ELSE CHOOSE i \in S : \A j \in S : i <= j

\* the loop is over with every round of a budget of at least one run, and the
\* last round produced a tool result
LoopEndedAtBudgetWithResults ==
    LET N == tool_tracker.max_rounds
    IN  /\ N >= 1
        /\ tool_tracker.current_round = N
        /\ N <= Len(api_calls)
        /\ api_calls[N].kind = "round_call"
        /\ api_calls[N].ok
        /\ Len(CallsOfRound(N)) >= 1
        /\ RoundExecuted(N)

\* C26: in a run with tools, the tool-free synthesis call is made if and only
\* if the loop ends with current_round = max_tool_rounds >= 1 and a last round
\* that produced a tool result; there is at most one synthesis call, it is the
\* last LLM call of the run, and no tool is executed after it
C26_SynthesisIff ==
    WithTools =>
        /\ (SynthesisIndex # 0) <=> LoopEndedAtBudgetWithResults
        /\ Len(SelectSeq(IssuedKinds, LAMBDA k : k = "synth_call")) <= 1
        /\ SynthesisIndex # 0 =>
              /\ SynthesisIndex = Len(IssuedKinds)
              /\ ~OffersTools(IssuedParams[SynthesisIndex])
              /\ pc \in {"synth_call", "done"}
              /\ \A j \in 1..Len(tool_calls) : tool_calls[j].after_call < SynthesisIndex

\* a run of two rounds that ended with the synthesis call, with three tools run
C26_Witness ==
    /\ WithTools
    /\ pc = "done"
    /\ tool_tracker.max_rounds = 2
    /\ SynthesisIndex = 3
    /\ Len(tool_calls) = 3

\* the tracker's round counter moves only by a start_round made while
\* can_make_tool_call() is true; the step that calls generate_response makes a
\* new tracker and may start its round 1
StartRoundChecked ==
    IF pc = "idle"
    THEN tool_tracker'.current_round = 0
            \/ (tool_tracker'.current_round = 1 /\ tool_tracker'.max_rounds >= 1)
    ELSE tool_tracker'.current_round # tool_tracker.current_round =>
            /\ tool_tracker.current_round < tool_tracker.max_rounds
            /\ tool_tracker'.current_round = tool_tracker.current_round + 1
            /\ current_round' = tool_tracker'.current_round
            /\ pc' = "round_call"

\* the rounds started so far are 1, 2, ..., k with k <= max_tool_rounds: one
\* round call per round, and every tool logged under the round of its call
RoundsInOrder ==
    /\ tool_tracker.current_round <= tool_tracker.max_rounds
    /\ current_round = tool_tracker.current_round
    /\ WithTools =>
          /\ Len(SelectSeq(IssuedKinds, LAMBDA k : k = "round_call"))
                = tool_tracker.current_round
          /\ \A i \in 1..tool_tracker.current_round : IssuedKinds[i] = "round_call"
          /\ \A j \in 1..Len(tool_calls) : tool_calls[j].round = tool_calls[j].after_call
          /\ \A j \in 1..Len(tool_tracker.tool_calls_made) :
                tool_tracker.tool_calls_made[j].round = tool_calls[j].round

\* C27: within a run, start_round is called only where can_make_tool_call() is
\* true, so that current_round <= max_rounds holds in every state of a run with
\* max_tool_rounds >= 0, and the rounds started are exactly 1, 2, ..., k with
\* k <= max_tool_rounds
C27_StartRoundGuarded == [][StartRoundChecked]_vars /\ []RoundsInOrder

\* the last round of a budget of two is started, after a round of two tools
C27_Witness ==
    /\ pc = "round_call"
    /\ tool_tracker.max_rounds = 2
    /\ tool_tracker.current_round = 2
    /\ Len(tool_tracker.tool_calls_made) = 2

\* LLM call i was answered with a stop reason other than tool_use
NotToolUse(i) ==
    /\ i <= Len(api_calls)
    /\ api_calls[i].ok
    /\ api_calls[i].response.stop_reason # "tool_use"

\* C28: tools are executed only for responses whose stop_reason is tool_use; the
\* tool_use blocks of a response with another stop reason are never executed,
\* never logged in the tracker and give no tool-result message
C28_OnlyOnToolUse ==
    /\ \A j \in 1..Len(tool_calls) :
          /\ api_calls[tool_calls[j].after_call].ok
          /\ api_calls[tool_calls[j].after_call].response.stop_reason = "tool_use"
    /\ \A i \in 1..Len(api_calls) :
          NotToolUse(i) =>
              /\ Len(CallsOfRound(i)) = 0
              /\ \A j \in 1..Len(tool_tracker.tool_calls_made) :
                    tool_tracker.tool_calls_made[j].round # i
                        \/ api_calls[i].kind # "round_call"
              /\ pc = "done"
              /\ i = Len(api_calls)
              /\ api_calls[i].kind = "round_call" =>
                    /\ Len(messages) = 2 * i
                    /\ messages[2 * i].role = "assistant"
                    /\ messages[2 * i].content = api_calls[i].response.content

\* the second round was answered with end_turn and two tool_use blocks, and
\* the run is over with the one tool of round 1 executed
C28_Witness ==
    /\ NotToolUse(2)
    /\ api_calls[2].kind = "round_call"
    /\ Len(ToolUsePositions(api_calls[2].response.content)) = 2
    /\ pc = "done"
    /\ Len(tool_calls) = 1
    /\ Len(tool_tracker.tool_calls_made) = 1

\* the conversation handed to the i-th LLM call issued
Conversation(i) == IssuedParams[i].messages

IsPrefix(a, b) == Len(a) <= Len(b) /\ SubSeq(b, 1, Len(a)) = a

\* C29: at every LLM call the conversation starts with the user's query, the
\* only message of the first call; the roles alternate user, assistant; the
\* last message is a user message; and the conversation of a call is that of
\* the call before with messages appended
C29_ConversationShape ==
    /\ \A i \in 1..Len(IssuedParams) :
          /\ Len(Conversation(i)) >= 1
          /\ Conversation(i)[1] = [role |-> "user", content |-> Query]
          /\ \A k \in 1..Len(Conversation(i)) :
                Conversation(i)[k].role = IF k % 2 = 1 THEN "user" ELSE "assistant"
          /\ Conversation(i)[Len(Conversation(i))].role = "user"
    /\ Len(IssuedParams) >= 1 => Len(Conversation(1)) = 1
    /\ \A i \in 1..(Len(IssuedParams) - 1) :
          /\ IsPrefix(Conversation(i), Conversation(i + 1))
          /\ Len(Conversation(i + 1)) = Len(Conversation(i)) + 2
    /\ Len(IssuedParams) >= 1 =>
          IsPrefix(Conversation(Len(IssuedParams)), messages)

\* the synthesis call of a run of two rounds: a conversation of five messages
C29_Witness ==
    /\ Len(IssuedParams) = 3
    /\ IssuedKinds[3] = "synth_call"
    /\ Len(Conversation(3)) = 5
    /\ Conversation(3)[5].role = "user"
    /\ Conversation(3)[5].content[1].type = "tool_result"

\* LLM call i asked for tools with at least one tool_use block, and they are done
RoundExecutedTools(i) ==
    /\ i <= Len(api_calls)
    /\ api_calls[i].kind = "round_call"
    /\ api_calls[i].ok
    /\ api_calls[i].response.stop_reason = "tool_use"
    /\ Len(ToolUsePositions(api_calls[i].response.content)) > 0
    /\ RoundExecuted(i)

Flagged(res) == "is_error" \in DOMAIN res /\ res.is_error

\* C30: the tool-result message of a round that executed tools holds one
\* tool_result per tool_use block of the assistant response before it, in the
\* order of the blocks, each with the block's id as tool_use_id, and flagged
\* is_error if and only if the execution of that block raised
C30_ResultPerBlock ==
    \A i \in 1..Len(api_calls) :
        RoundExecutedTools(i) =>
            LET content == messages[2 * i].content
                blocks == ToolUsePositions(content)
                results == messages[2 * i + 1].content
                calls == CallsOfRound(i)
            IN  /\ messages[2 * i].role = "assistant"
                /\ content = api_calls[i].response.content
                /\ messages[2 * i + 1].role = "user"
                /\ Len(results) = Len(blocks)
                /\ Len(calls) = Len(blocks)
                /\ \A j \in 1..Len(blocks) :
                      /\ results[j].type = "tool_result"
                      /\ results[j].tool_use_id = content[blocks[j]].id
                      /\ calls[j].block = blocks[j]
                      /\ Flagged(results[j]) <=> calls[j].raised
                      /\ results[j].content =
                            IF calls[j].raised
                            THEN <<"Tool execution failed: ">> \o exc_text
                            ELSE <<"result">> \o content[blocks[j]].input

\* a round of two tools: the first returned, the second raised
C30_Witness ==
    /\ RoundExecutedTools(1)
    /\ Len(ToolUsePositions(api_calls[1].response.content)) = 2
    /\ Len(messages[3].content) = 2
    /\ ~Flagged(messages[3].content[1])
    /\ Flagged(messages[3].content[2])

(***************************************************************************)
(* The claims about the system prompt of a round's LLM call, checked under *)
(* SpecDigest.                                                             *)
(***************************************************************************)
\* the call of round current_round has just been issued
AtRoundCall == pc = "round_call" /\ "system" \in DOMAIN api_params

Carries(text, literal) == \E i \in 1..Len(text) : text[i] = literal[1]

\* C21: for a budget N >= 1, the enriched system prompt of round R carries the
\* final-round guidance when R = N and the first-of-N-rounds guidance when
\* R = 1 < N
C21_RoundGuidance ==
    AtRoundCall =>
        /\ current_round = tool_tracker.max_rounds
              => /\ Carries(api_params.system, FinalRoundGuidance)
                 /\ ~Carries(api_params.system, FirstRoundGuidance)
        /\ current_round = 1 /\ 1 < tool_tracker.max_rounds
              => /\ Carries(api_params.system, FirstRoundGuidance)
                 /\ ~Carries(api_params.system, FinalRoundGuidance)

\* what follows the label of the previous results in a system prompt
BlockDigest(text) ==
    LET at == CHOOSE i \in 1..Len(text) : text[i] = PreviousResultsLabel[1]
    IN  SubSeq(text, at + 1, Len(text))

\* "Round n:" stands at position i of a digest
HeaderAt(d, i) ==
    /\ d[i] = "R"
    /\ i + 7 <= Len(d)
    /\ SubSeq(d, i, i + 5) = <<"R", "o", "u", "n", "d", " ">>
    /\ d[i + 7] = ":"

\* the line of an execution starts at position i of a digest
LineAt(d, i) ==
    /\ d[i] = "\n"
    /\ i + 7 <= Len(d)
    /\ SubSeq(d, i + 1, i + 4) = <<" ", " ", "-", " ">>
    /\ d[i + 6] = ":"

\* the positions of a digest that satisfy Test, in ascending order
Positions(d, Test(_, _)) ==
    SelectSeq([i \in 1..Len(d) |-> i], LAMBDA i : Test(d, i))

\* the rounds a digest lists, in the order of their headers
RoundsListed(d) ==
    LET at == Positions(d, HeaderAt) IN [k \in 1..Len(at) |-> d[at[k] + 6]]

\* for each line of a digest in order: the round whose header comes before
\* it, the tool's name, and whether the line shows a result and not a failure
LinesListed(d) ==
    LET heads == Positions(d, HeaderAt)
        at == Positions(d, LineAt)
        head(i) == CHOOSE h \in 1..Len(heads) :
                      /\ heads[h] < i
                      /\ \A g \in 1..Len(heads) : heads[g] < i => g <= h
    IN  [k \in 1..Len(at) |->
            [round |-> d[heads[head(at[k])] + 6],
             tool_name |-> <<d[at[k] + 5]>>,
             success |-> ~(at[k] + 8 <= Len(d) /\ d[at[k] + 8] = "F")]]

\* the same of the tracker's log, where the calls are in execution order
LinesLogged ==
    [k \in 1..Len(tool_tracker.tool_calls_made) |->
        [round |-> ToString(tool_tracker.tool_calls_made[k].round),
         tool_name |-> tool_tracker.tool_calls_made[k].tool_name,
         success |-> tool_tracker.tool_calls_made[k].success]]

RECURSIVE AloneRun(_)
\* the run that the events bring about when no other call is made
AloneRun(events) ==
    IF events = <<>>
    THEN NewRun
    ELSE run_step(AloneRun(SubSeq(events, 1, Len(events) - 1)), BaseParams,
                  events[Len(events)])

\* every call a run issued and the call it waits on
RunParams(i) ==
    [k \in 1..Len(runs[i].api_calls) |-> runs[i].api_calls[k].params]
        \o (IF runs[i].pc \in CallStates THEN <<runs[i].api_params>> ELSE <<>>)

StartsWithSystemPrompt(params) ==
    /\ "system" \in DOMAIN params
    /\ SubSeq(params.system, 1, Len(SYSTEM_PROMPT)) = SYSTEM_PROMPT

\* C23: two interleaved generate_response calls on one AIGenerator share no
\* state: self.base_params stays as built, every system prompt starts with the
\* unchanged SYSTEM_PROMPT, and each call's tracker, conversation, context,
\* issued parameters and returned text are those of the same call made alone
C23_RunsIndependent ==
    /\ base_params = BaseParams
    /\ \A i \in DOMAIN runs :
          /\ runs[i] = AloneRun(runs[i].events)
          /\ \A k \in 1..Len(RunParams(i)) :
                /\ StartsWithSystemPrompt(RunParams(i)[k])
                /\ \A f \in DOMAIN BaseParams : RunParams(i)[k][f] = BaseParams[f]

\* both calls are in flight: one waits on a tool of its second round, the
\* other on its synthesis call
C23_Witness ==
    /\ DOMAIN runs = Runs
    /\ runs[1].pc = "tool_call"
    /\ runs[1].current_round = 2
    /\ runs[2].pc = "synth_call"
    /\ Len(runs[2].api_calls) >= 1

(***************************************************************************)
(* C25, C24: the Tool Registry.                                            *)
(***************************************************************************)
indicates_not_found(text) == \E k \in 1..Len(text) : text[k] = "not found"

\* a step in which the registry executed for query q
Executes(q) ==
    /\ q \in DOMAIN queries'
    /\ queries'[q].execs = queries[q].execs + 1

ExecuteAnswered ==
    \A q \in DOMAIN queries :
        Executes(q) =>
            IF ~is_registered(registry, executed'.name)
            THEN /\ executed'.result.kind = "returned"
                 /\ indicates_not_found(executed'.result.value)
                 /\ registry' = registry
            ELSE LET i == tool_index(registry, executed'.name)
                 IN  /\ registry'[i].calls = <<executed'.kwargs>>
                     /\ \A j \in DOMAIN registry : j # i => registry'[j] = registry[j]
                     /\ \/ executed'.result.kind = "raised"
                        \/ executed'.result =
                              Returned(tool_output_of(registry[i], executed'.kwargs))

\* C25: in every registry state, execute of a name that is not registered
\* returns a string that says 'not found' and does not raise; execute of a
\* registered name invokes that tool, and no other, with the given keyword
\* arguments and returns the string the tool returns
C25_ExecuteByName == [][ExecuteAnswered]_vars

\* a name that is not registered was executed on a registry that holds
\* another tool and its sources
C25_Witness ==
    /\ executed # NoExecute
    /\ executed.name = "get_course_outline"
    /\ ~is_registered(registry, "get_course_outline")
    /\ Len(registry) = 1
    /\ registry[1].last_sources # <<>>
    /\ executed.result = Returned(tool_not_found("get_course_outline"))

OwnSourcesOnly(q) ==
    \A k \in 1..Len(queries[q].read) : queries[q].read[k].query = q

\* C24 as stated: in every interleaving of two queries on one Tool Registry,
\* each resetting the sources when it begins and reading them when its
\* orchestration is over, the sources a query reads are its own
C24_NoLeak ==
    \A q \in DOMAIN queries :
        queries[q].pc = "done" => OwnSourcesOnly(q)

\* C24, amended: the sources a query reads are its own when no tool was
\* executed for another query between this query's reset and its read
C24_NoLeakWhenSerialized ==
    \A q \in DOMAIN queries :
        queries[q].pc = "done" /\ ~queries[q].disturbed => OwnSourcesOnly(q)

\* one query after the other: each has read sources, and they are its own
C24_Witness ==
    /\ DOMAIN queries = Queries
    /\ \A q \in Queries :
          /\ queries[q].pc = "done"
          /\ ~queries[q].disturbed
          /\ queries[q].read # <<>>
          /\ queries[q].read[1].query = q

(***************************************************************************)
(* C31: the fallback after the round loop.                                 *)
(***************************************************************************)
\* the run ended neither with a round's direct answer nor with the synthesis
\* call nor with a failed LLM call
FallbackTaken ==
    /\ pc = "done"
    /\ WithTools
    /\ Len(api_calls) > 0 =>
          /\ LastCall.ok
          /\ LastCall.kind = "round_call"
          /\ LastCall.response.stop_reason = "tool_use"

\* the assistant messages of the conversation that hold a text block
AssistantTexts ==
    {n \in 1..Len(messages) :
        /\ messages[n].role = "assistant"
        /\ \E i \in 1..Len(messages[n].content) : messages[n].content[i].type = "text"}

MostRecentAssistantText ==
    IF AssistantTexts = {}
    THEN <<"I apologize, but I couldn't generate a proper response.">>
    ELSE LET n == CHOOSE m \in AssistantTexts : \A k \in AssistantTexts : k <= m
         IN  join(SelectSeq(messages[n].content, LAMBDA b : b.type = "text"))

\* C31: when the run with tools ends neither with a direct answer nor with the
\* synthesis call, generate_response returns the text of the most recent
\* assistant message that holds text, or the apology when there is none; it
\* does not raise, and it has made no LLM call but the calls of its rounds
C31_Fallback ==
    FallbackTaken =>
        /\ outcome = Returned(MostRecentAssistantText)
        /\ Len(api_calls) = tool_tracker.current_round
        /\ \A i \in 1..Len(api_calls) : api_calls[i].kind = "round_call"

\* the last round's response holds no text: the text of the round before it
\* is returned
C31_Witness ==
    /\ FallbackTaken
    /\ Len(api_calls) = 2
    /\ Len(LastCall.response.content) = 0
    /\ outcome.kind = "returned"
    /\ outcome.value = <<"text", "1", "1">>

(***************************************************************************)
(* C32: a tool name the registry does not hold.                            *)
(***************************************************************************)
\* the tool executions that raised
RaisedCalls == SelectSeq(tool_calls, LAMBDA c : c.raised)

\* tool call k of the run asked for a name that is not registered
Unregistered(k) ==
    /\ "registered" \in DOMAIN tool_calls[k]
    /\ ~tool_calls[k].registered

\* the position of tool call k among the calls of its round
PlaceInRound(k) ==
    Cardinality({m \in 1..k : tool_calls[m].after_call = tool_calls[k].after_call})

\* C32: when the LLM asks for a tool name that is not registered, the tracker
\* logs the call with success = true and no error, the errors list holds the
\* texts of the raised calls only, the tool_result of the call is the
\* registry's 'not found' text with no is_error flag, and the round is followed
\* by the next round's call or, at the budget, by the synthesis call
C32_NotFoundIsAResult ==
    \A k \in 1..Len(tool_calls) :
        Unregistered(k) =>
            LET i == tool_calls[k].after_call
            IN  /\ tool_tracker.tool_calls_made[k].success
                /\ tool_tracker.tool_calls_made[k].error = None
                /\ Len(tool_tracker.errors) = Len(RaisedCalls)
                /\ RoundExecuted(i) =>
                      LET res == messages[2 * i + 1].content[PlaceInRound(k)]
                      IN  /\ messages[2 * i + 1].role = "user"
                          /\ res.type = "tool_result"
                          /\ res.tool_use_id = api_calls[i].response.content[
                                                   tool_calls[k].block].id
                          /\ "is_error" \notin DOMAIN res
                          /\ indicates_not_found(res.content)
                          /\ CallAfterRound(i, IF i < tool_tracker.max_rounds
                                               THEN "round_call" ELSE "synth_call")

\* the only tool asked for in round 1 is not registered; the call of round 2
\* has been issued with the 'not found' text in its conversation
C32_Witness ==
    /\ Len(tool_calls) = 1
    /\ Unregistered(1)
    /\ pc = "round_call"
    /\ current_round = 2
    /\ api_params.messages[3].content[1].content = tool_not_found("search_course_content")
    /\ tool_tracker.errors = <<>>

(***************************************************************************)
(* C33: the round tags of the tracker's call records.                      *)
(***************************************************************************)
RecordsOfRound(r) == SelectSeq(tool_tracker.tool_calls_made, LAMBDA c : c.round = r)

\* C33: every call record of the tracker is tagged with the round whose LLM
\* response asked for the call; the tags lie in 1..max_tool_rounds and do not
\* decrease along the log, and the records tagged r are as many as the tool_use
\* blocks executed in round r: all those of the round's response once the round
\* is done
C33_RecordsTagged ==
    LET log == tool_tracker.tool_calls_made
    IN  /\ Len(log) = Len(tool_calls)
        /\ \A k \in 1..Len(log) :
              /\ log[k].round \in 1..tool_tracker.max_rounds
              /\ log[k].round = tool_calls[k].after_call
              /\ api_calls[log[k].round].kind = "round_call"
              /\ api_calls[log[k].round].response.content[tool_calls[k].block].type
                    = "tool_use"
              /\ k > 1 => log[k - 1].round <= log[k].round
        /\ \A r \in 1..Len(api_calls) :
              /\ Len(RecordsOfRound(r)) = Len(CallsOfRound(r))
              /\ RoundExecutedTools(r) =>
                    Len(RecordsOfRound(r))
                        = Len(ToolUsePositions(api_calls[r].response.content))

\* two calls logged in round 1 and one in round 2
C33_Witness ==
    /\ Len(tool_tracker.tool_calls_made) = 3
    /\ Len(RecordsOfRound(1)) = 2
    /\ Len(RecordsOfRound(2)) = 1
    /\ pc = "synth_call"

(***************************************************************************)
(* C34: the accumulated context.                                           *)
(***************************************************************************)
\* a step leaves the entries there are as they are and appends at most one,
\* and it appends one exactly when it executes the last tool of a round
ContextAppended ==
    /\ IsPrefix(accumulated_context, accumulated_context')
    /\ Len(accumulated_context') <= Len(accumulated_context) + 1
    /\ Len(accumulated_context') = Len(accumulated_context) + 1
          <=> /\ pc = "tool_call"
              /\ Len(tool_calls') = Len(tool_calls) + 1
              /\ \A i \in (block_idx + 1)..Len(response.content) :
                    response.content[i].type # "tool_use"

\* the rounds whose tools are done
RoundsWithResults == {r \in 1..Len(api_calls) : RoundExecutedTools(r)}

\* entry p is the entry of round p: its executions are the tool calls of that
\* round in order, counted in total and by those that did not raise
ContextEntries ==
    /\ Len(accumulated_context) = Cardinality(RoundsWithResults)
    /\ \A p \in 1..Len(accumulated_context) :
          LET entry == accumulated_context[p]
              calls == CallsOfRound(p)
          IN  /\ p \in RoundsWithResults
              /\ entry.round = p
              /\ entry.total_tools >= 1
              /\ entry.total_tools = Len(calls)
              /\ entry.successful_tools <= entry.total_tools
              /\ entry.successful_tools = Len(SelectSeq(calls, LAMBDA c : ~c.raised))
              /\ Len(entry.tool_executions) = Len(calls)
              /\ \A j \in 1..Len(calls) :
                    /\ entry.tool_executions[j].input = calls[j].input
                    /\ entry.tool_executions[j].success = ~calls[j].raised

\* C34: within a run the accumulated context is append-only: a step never
\* changes an entry and appends exactly one entry when a round that produced a
\* tool result ends; the entries carry the round numbers 1, 2, ..., k in order,
\* total_tools >= 1 equal to the tool calls executed that round and
\* successful_tools <= total_tools equal to those that did not raise
C34_ContextAppendOnly == [][ContextAppended]_vars /\ []ContextEntries

\* two entries: round 1 ran two tools of which one raised, round 2 one
C34_Witness ==
    /\ Len(accumulated_context) = 2
    /\ accumulated_context[1].total_tools = 2
    /\ accumulated_context[1].successful_tools = 1
    /\ accumulated_context[2].total_tools = 1
    /\ accumulated_context[2].round = 2

(***************************************************************************)
(* C35: termination.                                                       *)
(***************************************************************************)
\* a finished run returned a string or raised what the LLM call raised, when the
\* answer that response.content[0].text is read from starts with a text block
EndsWithAnOutcome ==
    /\ pc = "done"
    /\ Len(api_calls) > 0 /\ LastCall.ok => HasLeadingText(LastCall.response)
    => \/ outcome.kind = "returned"
       \/ /\ outcome = Raised("APIError")
          /\ ~LastCall.ok

\* no run makes more than max_tool_rounds + 1 LLM calls
CallsBounded ==
    pc # "idle" =>
        Len(api_calls) + (IF pc \in CallStates THEN 1 ELSE 0)
            <= tool_tracker.max_rounds + 1

\* C35: when every LLM call and every tool execution returns or raises, every
\* generate_response run ends, after at most max_tool_rounds + 1 LLM calls, and
\* it ends by returning a string or by raising what an LLM call raised
C35_Terminates ==
    /\ (pc # "idle") ~> (pc = "done")
    /\ [](CallsBounded /\ EndsWithAnOutcome)

\* a run of the full budget has ended with its synthesis answer:
\* max_tool_rounds + 1 calls
C35_Witness ==
    /\ pc = "done"
    /\ tool_tracker.max_rounds = 2
    /\ Len(api_calls) = 3
    /\ outcome.kind = "returned"

(***************************************************************************)
(* C36: the parameters of the calls of the round loop.                     *)
(***************************************************************************)
\* the conversation when call i of a run with tools is issued: the query, and
\* the response and the tool results of every call before it
ConversationSoFar(i) ==
    /\ Len(Conversation(i)) = 2 * i - 1
    /\ Conversation(i) = SubSeq(messages, 1, 2 * i - 1)
    /\ \A j \in 1..(i - 1) :
          /\ Conversation(i)[2 * j].content = api_calls[j].response.content
          /\ Len(Conversation(i)[2 * j + 1].content) = Len(CallsOfRound(j))

\* C36: every LLM call of the round loop carries the tool definitions given to
\* generate_response, tool_choice 'auto' and the conversation so far; the
\* synthesis call and the direct call carry neither tools nor tool_choice
C36_RoundCallParams ==
    \A i \in 1..Len(IssuedParams) :
        IF IssuedKinds[i] = "round_call"
        THEN /\ IssuedParams[i].tools = tools
             /\ Truthy(IssuedParams[i].tools)
             /\ IssuedParams[i].tool_choice = [type |-> "auto"]
             /\ ConversationSoFar(i)
        ELSE /\ IssuedKinds[i] \in {"synth_call", "direct_call"}
             /\ "tools" \notin DOMAIN IssuedParams[i]
             /\ "tool_choice" \notin DOMAIN IssuedParams[i]

\* the call of round 2 is in flight, with tools, and round 1 ran two tools
C36_Witness ==
    /\ pc = "round_call"
    /\ Len(IssuedParams) = 2
    /\ IssuedParams[2].tools = <<"search_course_content">>
    /\ Len(IssuedParams[2].messages) = 3
    /\ Len(IssuedParams[2].messages[3].content) = 2

(***************************************************************************)
(* C37: the synthesis call.                                                *)
(***************************************************************************)
\* the kinds of the LLM calls of run i, the one in flight included
RunKinds(i) ==
    [k \in 1..Len(runs[i].api_calls) |-> runs[i].api_calls[k].kind]
        \o (IF runs[i].pc \in CallStates THEN <<runs[i].pc>> ELSE <<>>)

\* the lines of the log of run i: round, tool name, outcome
RunLinesLogged(i) ==
    [k \in 1..Len(runs[i].tool_tracker.tool_calls_made) |->
        [round |-> ToString(runs[i].tool_tracker.tool_calls_made[k].round),
         tool_name |-> runs[i].tool_tracker.tool_calls_made[k].tool_name,
         success |-> runs[i].tool_tracker.tool_calls_made[k].success]]

\* the conversation of run i is the query and, for each of its n rounds, the
\* round's response and its tool results
FullConversation(i, msgs, n) ==
    /\ Len(msgs) = 2 * n + 1
    /\ msgs[1] = [role |-> "user", content |-> Query]
    /\ \A r \in 1..n :
          /\ msgs[2 * r] = [role |-> "assistant",
                            content |-> runs[i].api_calls[r].response.content]
          /\ msgs[2 * r + 1].role = "user"
          /\ Len(msgs[2 * r + 1].content) >= 1
          /\ \A j \in 1..Len(msgs[2 * r + 1].content) :
                msgs[2 * r + 1].content[j].type = "tool_result"

\* the system prompt is the base content, the synthesis guidance, the label of
\* the results and a digest that lists the rounds 1..n and every logged call
SynthesisPrompt(i, system, n) ==
    LET base == runs[i].system_content
        head == Len(base) + Len(SynthesisGuidance) + Len(AllResultsLabel)
        d == SubSeq(system, head + 1, Len(system))
    IN  /\ Len(system) > head
        /\ SubSeq(system, 1, head) = base \o SynthesisGuidance \o AllResultsLabel
        /\ RoundsListed(d) = [k \in 1..n |-> ToString(k)]
        /\ LinesListed(d) = RunLinesLogged(i)

\* C37: the synthesis call is issued over the full conversation, the query and
\* every round's response and tool results in order, without tools, and its
\* system prompt is the base prompt, the synthesis guidance and a digest that
\* covers every round of the run that produced tool results
C37_SynthesisCall ==
    \A i \in DOMAIN runs :
        \A c \in 1..Len(RunKinds(i)) :
            RunKinds(i)[c] = "synth_call" =>
                LET params == RunParams(i)[c]
                    n == runs[i].tool_tracker.current_round
                IN  /\ c = n + 1
                    /\ c = Len(RunKinds(i))
                    /\ Len(runs[i].accumulated_context) = n
                    /\ params.messages = runs[i].messages
                    /\ FullConversation(i, params.messages, n)
                    /\ "tools" \notin DOMAIN params
                    /\ "tool_choice" \notin DOMAIN params
                    /\ SynthesisPrompt(i, params.system, n)

\* the synthesis call of a run of two rounds with a conversation history, the
\* first round's tool failed
C37_Witness ==
    /\ DOMAIN runs = Runs
    /\ runs[1].pc = "synth_call"
    /\ runs[1].tool_tracker.current_round = 2
    /\ runs[1].system_content # SYSTEM_PROMPT
    /\ ~runs[1].tool_tracker.tool_calls_made[1].success
    /\ runs[1].tool_tracker.tool_calls_made[2].success

(***************************************************************************)
(* C38: the base content of every system prompt and the fixed parameters.  *)
(***************************************************************************)
HistoryLabel == <<"\n\nPrevious conversation:\n">>

\* the conversation_history run i was called with
HistoryOf(i) == runs[i].events[1].conversation_history

\* C38: every LLM call of a run, direct, of a round or the synthesis, has a
\* system prompt that begins with SYSTEM_PROMPT, followed by the block
\* 'Previous conversation:' and the history if and only if the
\* conversation_history given is a non-empty text, and carries the generator's
\* model, temperature 0 and max_tokens 800
C38_BaseContent ==
    \A i \in DOMAIN runs :
        \A c \in 1..Len(RunParams(i)) :
            LET params == RunParams(i)[c]
                history == HistoryOf(i)
                given == history # None /\ Len(history) > 0
                base == IF given
                        THEN <<"SYSTEM_PROMPT">> \o HistoryLabel \o history
                        ELSE <<"SYSTEM_PROMPT">>
            IN  /\ IsPrefix(base, params.system)
                /\ Carries(params.system, HistoryLabel) <=> given
                /\ RunKinds(i)[c] = "direct_call" => params.system = base
                /\ params.model = <<"model">>
                /\ params.temperature = 0
                /\ params.max_tokens = 800

\* one run with a history waits on its second round's call while the other,
\* given an empty history, waits on its direct call
C38_Witness ==
    /\ DOMAIN runs = Runs
    /\ runs[1].pc = "round_call"
    /\ runs[1].current_round = 2
    /\ HistoryOf(1) = <<"history">>
    /\ runs[2].pc = "direct_call"
    /\ HistoryOf(2) = <<>>

(***************************************************************************)
(* C39: determinism.                                                       *)
(***************************************************************************)
\* an input without the time its tool took
Timeless(ev) == IF ev.type = "tool" THEN [ev EXCEPT !.execution_time = 0] ELSE ev

\* the inputs run 2 was given are those run 1 was given, tool durations aside
SameInputs ==
    /\ Len(runs[2].events) <= Len(runs[1].events)
    /\ \A k \in 1..Len(runs[2].events) :
          Timeless(runs[2].events[k]) = Timeless(runs[1].events[k])

\* C39: two runs given the same query, history, tools, max_tool_rounds, LLM
\* responses and tool outcomes issue the same LLM calls, parameter by
\* parameter, and return or raise the same, whatever time their tools took and
\* whatever the other run has done on the same AIGenerator
C39_Deterministic ==
    SameInputs =>
        /\ IsPrefix(RunParams(2), RunParams(1))
        /\ IsPrefix(RunKinds(2), RunKinds(1))
        /\ Len(runs[2].events) = Len(runs[1].events) =>
              /\ RunParams(2) = RunParams(1)
              /\ runs[2].pc = runs[1].pc
              /\ runs[2].outcome = runs[1].outcome
              /\ runs[2].messages = runs[1].messages

\* both runs have made two rounds and returned; their tools took different
\* times
C39_Witness ==
    /\ DOMAIN runs = Runs
    /\ runs[1].pc = "done"
    /\ runs[2].pc = "done"
    /\ Len(runs[1].api_calls) = 3
    /\ Len(runs[2].api_calls) = 3
    /\ runs[1].outcome.kind = "returned"
    /\ runs[1].tool_tracker.execution_times # runs[2].tool_tracker.execution_times

\* ---------------------------------------------------------------------------
\* _handle_tool_execution (lines 163-212), the single-round helper

\* the base_params["messages"] a caller passes: the query alone, or the query
\* after an earlier exchange
HelperMessages ==
    {<<[role |-> "user", content |-> Query]>>,
     <<[role |-> "user", content |-> Query],
       [role |-> "assistant", content |-> <<Block(0, 1, "text")>>],
       [role |-> "user", content |-> Query]>>}

\* the base_params["system"] a caller passes
HelperSystems == {<<"Test system prompt">>, SYSTEM_PROMPT}

\* line 178: messages = base_params["messages"].copy(), a new list with the
\* same items
copy(msgs) == msgs

\* lines 181 and 201: messages.append(item) on the copy; the caller's list,
\* h.base_params.messages, is another object and keeps its items
helper_append(h, item) == [h EXCEPT !.messages = Append(@, item)]

\* lines 204-208: the parameters of the follow-up call
final_params(base, msgs, system) ==
    spread(base, [messages |-> msgs, system |-> system])

\* lines 199-211: after the loop over the blocks, the combined tool-result
\* message if there are results, then the follow-up call is issued
helper_after_loop(h, results) ==
    LET with_results == IF has_results(results)
                        THEN helper_append(h, [role |-> "user", content |-> results])
                        ELSE h
    IN  [with_results EXCEPT
            !.pc = "final_call",
            !.block_idx = 0,
            !.tool_results = results,
            !.final_params = final_params(base_params, with_results.messages,
                                          h.base_params.system)]

\* _handle_tool_execution is called (lines 178-186): up to the first
\* tool_manager.execute_tool, or to the follow-up call if no block asks for a tool
HandleToolExecution(shape, msgs, system) ==
    /\ helper.pc = "none"
    /\ LET initial_response == Message(1, "tool_use", shape)
           first == next_tool_use(initial_response.content, 1)
           entered == helper_append(
                          [pc |-> "tool_call",
                           initial_response |-> initial_response,
                           base_params |-> [messages |-> msgs, system |-> system],
                           messages |-> copy(msgs),
                           tool_results |-> <<>>,
                           block_idx |-> first,
                           executions |-> <<>>,
                           final_params |-> NoParams,
                           api_calls |-> <<>>,
                           outcome |-> Running],
                          [role |-> "assistant", content |-> initial_response.content])
       IN  helper' = IF first # 0 THEN entered ELSE helper_after_loop(entered, <<>>)
    /\ UNCHANGED <<pc, tools, tool_manager, exc_text, tool_tracker, messages,
                   accumulated_context, current_round, response, block_idx,
                   tool_results, tool_executions, api_params, outcome, api_calls,
                   tool_calls>>
    /\ UNCHANGED <<tracker_call, tool_output, digest, runs, base_params,
                   registry, queries, executed>>

\* tool_manager.execute_tool returns or raises (lines 187-197): no try surrounds
\* the call, so what the tool raises leaves the helper
HelperToolReturn(raises) ==
    /\ helper.pc = "tool_call"
    /\ LET content == helper.initial_response.content
           block == content[helper.block_idx]
           ran == [helper EXCEPT !.executions =
                       Append(@, [block |-> helper.block_idx, raised |-> raises])]
           results == Append(helper.tool_results,
                             [type |-> "tool_result",
                              tool_use_id |-> block.id,
                              content |-> ToolResult(block)])
           next == next_tool_use(content, helper.block_idx + 1)
       IN  helper' = IF raises
                     THEN [ran EXCEPT !.pc = "done", !.outcome = Raised("Exception")]
                     ELSE IF next # 0
                     THEN [ran EXCEPT !.block_idx = next, !.tool_results = results]
                     ELSE helper_after_loop(ran, results)
    /\ UNCHANGED <<pc, tools, tool_manager, exc_text, tool_tracker, messages,
                   accumulated_context, current_round, response, block_idx,
                   tool_results, tool_executions, api_params, outcome, api_calls,
                   tool_calls>>
    /\ UNCHANGED <<tracker_call, tool_output, digest, runs, base_params,
                   registry, queries, executed>>

\* client.messages.create raises (line 211): nothing catches it
HelperLLMFails ==
    /\ helper.pc = "final_call"
    /\ helper' = [helper EXCEPT
                     !.pc = "done",
                     !.api_calls = Append(@, [params |-> helper.final_params,
                                              ok |-> FALSE,
                                              response |-> NoResponse]),
                     !.outcome = Raised("APIError")]
    /\ UNCHANGED <<pc, tools, tool_manager, exc_text, tool_tracker, messages,
                   accumulated_context, current_round, response, block_idx,
                   tool_results, tool_executions, api_params, outcome, api_calls,
                   tool_calls>>
    /\ UNCHANGED <<tracker_call, tool_output, digest, runs, base_params,
                   registry, queries, executed>>

\* the follow-up call answers (lines 211-212)
HelperFinalResponse(stop, shape) ==
    /\ helper.pc = "final_call"
    /\ LET final_response == Message(2, stop, shape)
       IN  helper' = [helper EXCEPT
                         !.pc = "done",
                         !.api_calls = Append(@, [params |-> helper.final_params,
                                                  ok |-> TRUE,
                                                  response |-> final_response]),
                         !.outcome = first_text(final_response)]
    /\ UNCHANGED <<pc, tools, tool_manager, exc_text, tool_tracker, messages,
                   accumulated_context, current_round, response, block_idx,
                   tool_results, tool_executions, api_params, outcome, api_calls,
                   tool_calls>>
    /\ UNCHANGED <<tracker_call, tool_output, digest, runs, base_params,
                   registry, queries, executed>>

HelperNext ==
    \/ \E shape \in Shapes, msgs \in HelperMessages, system \in HelperSystems :
          HandleToolExecution(shape, msgs, system)
    \/ \E raises \in BOOLEAN : HelperToolReturn(raises)
    \/ HelperLLMFails
    \/ \E stop \in FinalStopReasons, shape \in TextShapes :
          HelperFinalResponse(stop, shape)

SpecHelper == Init /\ [][HelperNext]_vars

\* the helper has ended, it was given a response that asks for a tool, and its
\* follow-up call, if it made one, was answered with leading text
HelperEnded ==
    /\ helper.pc = "done"
    /\ ToolUsePositions(helper.initial_response.content) # <<>>
    /\ \A k \in 1..Len(helper.api_calls) :
          /\ helper.api_calls[k].ok
          /\ first_text(helper.api_calls[k].response).kind = "returned"

\* every tool_use block was executed once, in content order
ExecutedEachOnce ==
    LET positions == ToolUsePositions(helper.initial_response.content)
    IN  /\ Len(helper.executions) = Len(positions)
        /\ \A k \in 1..Len(positions) : helper.executions[k].block = positions[k]

\* the copy holds the caller's messages, the assistant response and one message
\* with one result per tool_use block; the caller's list is as it was passed
CopyExtended ==
    LET content == helper.initial_response.content
        positions == ToolUsePositions(content)
        given == helper.base_params.messages
    IN  /\ given \in HelperMessages
        /\ Len(helper.messages) = Len(given) + 2
        /\ SubSeq(helper.messages, 1, Len(given)) = given
        /\ helper.messages[Len(given) + 1] =
              [role |-> "assistant", content |-> content]
        /\ helper.messages[Len(given) + 2].role = "user"
        /\ LET results == helper.messages[Len(given) + 2].content
           IN  /\ Len(results) = Len(positions)
               /\ \A k \in 1..Len(positions) :
                     /\ results[k].type = "tool_result"
                     /\ results[k].tool_use_id = content[positions[k]].id
                     /\ results[k].content = ToolResult(content[positions[k]])

\* one follow-up call, sent the extended copy and the caller's system text,
\* without tools, and its text is what the helper returns
OneFollowUp ==
    /\ Len(helper.api_calls) = 1
    /\ LET call == helper.api_calls[1]
       IN  /\ "tools" \notin DOMAIN call.params
           /\ "tool_choice" \notin DOMAIN call.params
           /\ call.params.messages = helper.messages
           /\ call.params.system = helper.base_params.system
           /\ helper.outcome = Returned(call.response.content[1].text)

\* C40: when _handle_tool_execution ends, it has executed every tool_use block
\* of the given response once in content order, a copy of the caller's messages
\* holds the assistant response and one combined tool-result message while the
\* caller's list is unchanged, and it has made one follow-up LLM call without
\* tools and returned its text
C40_HelperRound ==
    HelperEnded => ExecutedEachOnce /\ CopyExtended /\ OneFollowUp

\* the same, for the calls in which no tool raised
C40_HelperRoundNoRaise ==
    (HelperEnded /\ \A k \in 1..Len(helper.executions) : ~helper.executions[k].raised)
        => ExecutedEachOnce /\ CopyExtended /\ OneFollowUp

\* the helper was given a response with two tool_use blocks and has returned
C40_Returned ==
    /\ HelperEnded
    /\ Len(helper.executions) = 2
    /\ helper.outcome.kind = "returned"

\* the first tool of a response with two tool_use blocks raised
C40_ToolRaised ==
    /\ helper.pc = "done"
    /\ Len(ToolUsePositions(helper.initial_response.content)) = 2
    /\ Len(helper.executions) = 1
    /\ helper.outcome = Raised("Exception")

====
